---- MODULE Spec2Model ----
(***************************************************************************)
(* Chart synchronisation engine of the dashboard (module window.App.chart):*)
(* drawChart with its extend / full-rebuild decision, the reveal animation,*)
(* the control handlers that invalidate the sync state, and the refresh    *)
(* timer.  The browser runs one task at a time; the suspension points are  *)
(* the awaited fetch of loadCandles and every animation frame.  The awaits *)
(* on Plotly.react / Plotly.restyle resolve in the same task (no network,  *)
(* no timer), so a draw's continuation after the fetch is one step.        *)
(***************************************************************************)
EXTENDS Integers, Sequences, FiniteSets, TLC

(* ------------------------------ bounds --------------------------------- *)
MaxGrow       == 2      \* rows the backend may add to one source
MaxInflight   == 2      \* draws whose fetch is pending at the same time
MaxAnims      == 1      \* reveal animations running at the same time
MaxUserEvents == 1      \* user interactions in one run
MaxDraws      == 3      \* drawChart calls in one run
AnimTicks     == 2      \* animation clock: frame times are t/AnimTicks of the duration
MaxSchedEvents    == 2  \* user interactions in one run of the scheduler specification
MaxLen        == 5      \* points in a series handed to an indicator
MaxPeriod     == 3      \* the largest indicator period
MantissaBits  == 7      \* significant bits of a number (53 in the browser)
FracBits      == 4      \* the smallest positive number is 2^-FracBits
MaxExp        == 5      \* the largest number is (2^MantissaBits - 1) * 2^MaxExp
MaxRows       == 2      \* rows of a window whose signal markers are built
MaxQueue      == 3      \* initialization functions the entry point queues
MaxLoaderCalls == 2     \* calls of executeInit by ModuleLoader.checkAllModulesLoaded
MaxIntervalEdits  == 2  \* edits of #chartInterval in one run of the interval specification

(* -------------------------- program constants -------------------------- *)
TailMin          == 50     \* Math.max(50, ...)
TailDefault      == 500    \* ... || 500
RsiPeriodMin     == 2      \* Math.max(2, ...)
RsiPeriodDefault == 14     \* ... || 14
RevealStart      == 2      \* Math.min(2, N)
NoTs             == 0      \* _lastTs = null (timestamps are positive)
IntervalMin      == 5      \* Math.max(5, v|0)
IntervalDefault  == 10     \* ... || 10
NoStored         == 0      \* localStorage.getItem(CHART_INTERVAL_KEY) === null
TinyPositive     == 1      \* 1e-6 of the log floor: the smallest positive number, in units of 1 / Grid
FallbackPad      == 1      \* the last resort of pad
Half             == 65536  \* numbers are kept as hi * 2^16 + lo (32-bit arithmetic of v|0)

NoFile == "null"           \* _currentFile = null
Files  == {"a.csv", "b.csv"}
Chips  == {"sma20", "sma50", "signals_rsi", "signals_xgb"}
TailInputs      == {10, 51}          \* values typed into #tailRows
RsiPeriodInputs == {0, 7}            \* values typed into #rsiPeriod (0: empty field)
LowerPanels     == {"volume", "rsi"}

Min(a, b) == IF a < b THEN a ELSE b
Max(a, b) == IF a > b THEN a ELSE b

(* ----------------------- backend (GET /api/candles) -------------------- *)
\* Row i (1-based) of source f.  Timestamps are unique and increasing inside
\* a source; the two sources have disjoint timestamps and prices, b.csv later
\* than a.csv.
RowTs(f, i)    == IF f = "a.csv" THEN i ELSE 60 + i
RowClose(f, i) == IF f = "a.csv" THEN 100 + i ELSE 200 + i

\* a.csv is the file being recorded and starts one row short of the minimal
\* tail; b.csv is a short finished history
Growing == {"a.csv"}
InitLen == [f \in Files |-> IF f = "a.csv" THEN TailMin - 1 ELSE 3]

\* tail of loadCandles: Math.max(50, +tailRows.val() || 500)
TailOf(v) == Max(TailMin, IF v = 0 THEN TailDefault ELSE v)

\* the window the backend answers with: the last `tail' rows of the source
WindowLo(n, tail) == IF n > tail THEN n - tail + 1 ELSE 1

\* rows.map(r => r.ts), rows.map(r => r.close) of the window lo..hi of source f
\* (open, high and low are mapped and filtered exactly like close)
WinTs(f, lo, hi)    == [k \in 1..(hi - lo + 1) |-> RowTs(f, lo + k - 1)]
WinClose(f, lo, hi) == [k \in 1..(hi - lo + 1) |-> RowClose(f, lo + k - 1)]

(* ------------------------------ JS helpers ----------------------------- *)
\* Array.prototype.slice(idx) with a 0-based, possibly negative idx
JsSliceFrom(s, idx) ==
  LET from == IF idx >= 0 THEN idx ELSE Max(Len(s) + idx, 0)
  IN  IF from >= Len(s) THEN << >> ELSE SubSeq(s, from + 1, Len(s))

\* Array.prototype.slice(0, k)
JsPrefix(s, k) == SubSeq(s, 1, Min(k, Len(s)))

\* .filter(v => v != null): null is modelled by 0, data values are positive
NotNull(v) == v # 0
FilterNull(s) == SelectSeq(s, NotNull)

\* findIndex with t >= _lastTs: the row already shown counts as new
FindIndex_Geq(tsArr, lastTs) ==
  LET hits == {k \in 1..Len(tsArr) : tsArr[k] >= lastTs}
  IN  IF hits = {} THEN 0 - 1
      ELSE (CHOOSE k \in hits : \A j \in hits : k <= j) - 1

\* tsArr.findIndex(t => t > _lastTs): 0-based, -1 when there is none
FindIndex(tsArr, lastTs) ==
  LET hits == {k \in 1..Len(tsArr) : tsArr[k] > lastTs}
  IN  IF hits = {} THEN 0 - 1
      ELSE (CHOOSE k \in hits : \A j \in hits : k <= j) - 1

(* ----------------------- the interval setting -------------------------- *)
\* a number as JavaScript reads it from a text: sign, magnitude hi * 2^16 + lo,
\* and whether a fractional part follows; set = FALSE is the empty string
Num(neg, hi, lo, frac) == [set |-> TRUE, neg |-> neg, hi |-> hi, lo |-> lo, frac |-> frac]
NoInput == [set |-> FALSE, neg |-> FALSE, hi |-> 0, lo |-> 0, frac |-> FALSE]

\* String(n) of a stored number of seconds, read back as a number
OfSeconds(n) == Num(FALSE, n \div Half, n % Half, FALSE)

\* hi * 2^16 + lo of a 32-bit pattern, read as a signed integer
Signed32(h, l) == IF h >= Half \div 2 THEN (h - Half) * Half + l ELSE h * Half + l

\* v|0: the fraction is dropped and the integer is taken modulo 2^32 as a
\* signed 32-bit number
ToInt32(v) ==
  LET h == v.hi % Half
      l == v.lo
  IN  IF ~v.neg THEN Signed32(h, l)
      ELSE IF l = 0 THEN Signed32((Half - h) % Half, 0)
      ELSE Signed32(Half - 1 - h, Half - l)

\* getChartInterval: v = +($("#chartInterval").val() || stored || 10);
\* return Math.max(5, v|0)
getChartInterval(inp, stored) ==
  LET v == IF inp.set THEN inp
           ELSE IF stored # NoStored THEN OfSeconds(stored)
           ELSE OfSeconds(IntervalDefault)
  IN  Max(IntervalMin, ToInt32(v))

\* applyAutoControlsFromStorage: $("#chartInterval").val(+stored || 10)
applyAutoControlsFromStorage(stored) ==
  OfSeconds(IF stored # NoStored THEN stored ELSE IntervalDefault)

(* ------------------------------- state --------------------------------- *)
VARIABLES
  srcLen,        \* backend: number of rows of each source
  selFile,       \* $("#csvFile").val()
  tailRows,      \* $("#tailRows").val()
  cfg,           \* lowerPanel, rsiPeriod, logScale, checked chips
  debounce,      \* pending U.debounce timers: "tailRows", "rsiPeriod", "chartInterval"
  lastTs,        \* _lastTs
  currentFile,   \* _currentFile
  gd,            \* the #chart graph div as Plotly keeps it: gd.data
  view,          \* what the #chart container shows
  inflight,      \* drawChart calls suspended in `await loadCandles()'
  anims,         \* reveal animations with a requested frame (closures of step)
  chartTimer,    \* chartTimer: 0 (null) or the interval of the live timer
  timers,        \* number of live setInterval timers created by startChartTimer
  autoRefresh,   \* $("#autoRefreshChart").is(":checked")
  intervalInput, \* $("#chartInterval").val()
  storedInterval,\* localStorage.getItem(CHART_INTERVAL_KEY): NoStored or seconds
  fab,           \* countdown: raf (a frame of updateFabRing is requested),
                 \* ahead (nextRefreshAt is more than 100 ms away)
  docVisible,    \* document.visibilityState === "visible"
  paneActive,    \* $("#chart-pane").hasClass("active")
  boot,          \* position of the entry point: "start", "drawing", "timers", "ready"
  hostError,     \* a rejection of drawChart reached its caller
  budget,        \* user interactions left
  draws,         \* drawChart calls so far
  grown,         \* rows added so far, per source
  srcChanged,    \* history: the source changed since the last successful draw
  last,          \* history: the most recently settled drawChart
  calc,          \* an indicator call: its name, its arguments and what it returned
  mm             \* App.ModuleManager: initQueue, isInitialized, the executeInit calls
                 \* suspended in an await, and the log of the functions invoked

dataVars  == <<srcLen, grown>>
ctlVars   == <<selFile, tailRows, cfg, debounce>>
syncVars  == <<lastTs, currentFile>>
plotVars  == <<gd, view, anims>>
calcVars  == <<calc, mm>>
schedVars == <<chartTimer, timers, autoRefresh, intervalInput, storedInterval, fab,
               docVisible, paneActive>>
vars == <<srcLen, selFile, tailRows, cfg, debounce, lastTs, currentFile, gd, view,
          inflight, anims, chartTimer, timers, autoRefresh, intervalInput,
          storedInterval, fab, docVisible, paneActive, boot, hostError, budget, draws, grown, srcChanged, last,
          calc, mm>>

\* the overlay traces of a rebuild: computed from the whole fetched window
\* under the render configuration read at that moment
NoOv == [file |-> NoFile, lo |-> 0, hi |-> 0, lowerPanel |-> "volume",
         rsiPeriod |-> 0, logScale |-> FALSE, checked |-> {}]

\* gd.data undefined (never plotted, or purged)
NoData == [hasData |-> FALSE, ntraces |-> 0, x |-> << >>, close |-> << >>, ov |-> NoOv]

NoDraw == [kind |-> "none", path |-> "none", animate |-> FALSE, trigger |-> "none",
           file |-> NoFile, fileNow |-> NoFile, lo |-> 0, hi |-> 0,
           preLastTs |-> NoTs, preFile |-> NoFile, preHasData |-> FALSE,
           preCount |-> 0, preSrcChanged |-> FALSE, preView |-> "blank",
           postLastTs |-> NoTs, postFile |-> NoFile, postHasData |-> FALSE,
           postCount |-> 0, postView |-> "blank",
           addX |-> << >>, addClose |-> << >>, tailMax |-> 0,
           timerKept |-> TRUE, prevKind |-> "none"]

\* no indicator has been called
NoCalc == [fn |-> "none", values |-> << >>, period |-> 0, out |-> << >>]

\* const ModuleManager = { modules: {}, initQueue: [], isInitialized: false, ... }:
\* nothing queued, no executeInit called yet by the entry point (entry) or by
\* ModuleLoader (loaderCalls)
NewModuleManager ==
  [initQueue |-> << >>, isInitialized |-> FALSE, runs |-> << >>, log |-> << >>,
   entry |-> FALSE, loaderCalls |-> 0]

\* the page after the scripts have run, with b user interactions to come
LoadPage(b) ==
  /\ mm = NewModuleManager
  /\ srcLen = InitLen
  /\ grown = [f \in Files |-> 0]
  /\ selFile = "a.csv"
  /\ tailRows = 10
  /\ cfg = [lowerPanel |-> "volume", rsiPeriod |-> 0, logScale |-> FALSE, checked |-> {}]
  /\ debounce = {}
  /\ lastTs = NoTs
  /\ currentFile = NoFile
  /\ gd = NoData
  /\ view = "blank"
  /\ inflight = << >>
  /\ anims = << >>
  /\ chartTimer = 0
  /\ timers = 0
  /\ autoRefresh = TRUE
  /\ storedInterval = NoStored
  /\ intervalInput = applyAutoControlsFromStorage(NoStored)
  /\ fab = [raf |-> FALSE, ahead |-> FALSE]
  /\ docVisible = TRUE
  /\ paneActive = TRUE
  /\ boot = "start"
  /\ hostError = FALSE
  /\ budget = b
  /\ draws = 0
  /\ srcChanged = FALSE
  /\ last = NoDraw

Load(b) == LoadPage(b) /\ calc = NoCalc

Init == Load(MaxUserEvents)

(* ------------------------------ numbers -------------------------------- *)
\* A JavaScript number, scaled down: a finite number is v / Grid with v an
\* integer of at most MantissaBits significant bits and |v| <= MaxFin; the
\* others are +Infinity, -Infinity and NaN.  Every operation rounds its exact
\* result to the nearest number, ties to the even mantissa, and overflows to
\* an infinity.
RECURSIVE Pow2(_)
Pow2(k) == IF k = 0 THEN 1 ELSE 2 * Pow2(k - 1)

Grid   == Pow2(FracBits)
MaxFin == (Pow2(MantissaBits) - 1) * Pow2(MaxExp) * Grid

Fin(v) == [k |-> "fin", v |-> v]
Inf(s) == [k |-> "inf", v |-> s]
NaN    == [k |-> "nan", v |-> 0]
Lit(n) == Fin(n * Grid)

Abs(x) == IF x < 0 THEN 0 - x ELSE x
Sgn(x) == IF x < 0 THEN 0 - 1 ELSE 1

\* the spacing of the numbers around a / d
RECURSIVE UlpFrom(_, _, _)
UlpFrom(a, d, u) == IF a < Pow2(MantissaBits) * u * d THEN u ELSE UlpFrom(a, d, 2 * u)

\* the number nearest to the exact quotient n / d of two integers (d > 0), in
\* units of 1 / Grid
RoundQ(n, d) ==
  LET a == Abs(n)
      u == UlpFrom(a, d, 1)
      q == a \div (u * d)
      r == a % (u * d)
      m == IF 2 * r > u * d \/ (2 * r = u * d /\ q % 2 = 1) THEN q + 1 ELSE q
  IN IF m * u > MaxFin THEN Inf(Sgn(n)) ELSE Fin(Sgn(n) * m * u)

Neg(x) == IF x.k = "nan" THEN x ELSE [x EXCEPT !.v = 0 - x.v]

\* x + y
Add(x, y) ==
  IF x.k = "nan" \/ y.k = "nan" THEN NaN
  ELSE IF x.k = "inf" THEN (IF y.k = "inf" /\ y.v # x.v THEN NaN ELSE x)
  ELSE IF y.k = "inf" THEN y
  ELSE RoundQ(x.v + y.v, 1)

\* x - y
Sub(x, y) == Add(x, Neg(y))

\* x * y
Mul(x, y) ==
  IF x.k = "nan" \/ y.k = "nan" THEN NaN
  ELSE IF x.k = "inf" \/ y.k = "inf"
       THEN (IF x.v = 0 \/ y.v = 0 THEN NaN ELSE Inf(Sgn(x.v) * Sgn(y.v)))
  ELSE RoundQ(x.v * y.v, Grid)

\* x / y
Div(x, y) ==
  IF x.k = "nan" \/ y.k = "nan" THEN NaN
  ELSE IF x.k = "inf" THEN (IF y.k = "inf" THEN NaN ELSE Inf(Sgn(x.v) * Sgn(y.v)))
  ELSE IF y.k = "inf" THEN Fin(0)
  ELSE IF y.v = 0 THEN (IF x.v = 0 THEN NaN ELSE Inf(Sgn(x.v)))
  ELSE RoundQ(Sgn(y.v) * x.v * Grid, Abs(y.v))

\* Math.max(x, 0)
MathMax0(x) ==
  IF x.k = "nan" THEN NaN
  ELSE IF x.v > 0 THEN x ELSE Fin(0)

\* null in an output array
Null == [k |-> "null", v |-> 0]

(* ------------------------------ indicators ----------------------------- *)
\* a running sum that drops the value leaving the window one step late
sma_LateDrop(values, period) ==
  IF period <= 1 THEN values
  ELSE LET sum[i \in 0..Len(values)] ==
             IF i = 0 THEN Fin(0)
             ELSE LET s == Add(sum[i - 1], values[i])
                  IN IF i > period + 1 THEN Sub(s, values[i - period - 1]) ELSE s
       IN [i \in 1..Len(values) |->
             IF i >= period THEN Div(sum[i], Lit(period)) ELSE Null]

\* util.sma(values, period) on an array of numbers; sum[i] is `sum' after the
\* iteration of index i - 1
sma(values, period) ==
  IF period <= 1 THEN values
  ELSE LET sum[i \in 0..Len(values)] ==
             IF i = 0 THEN Fin(0)
             ELSE LET s == Add(sum[i - 1], values[i])
                  IN IF i > period THEN Sub(s, values[i - period]) ELSE s
       IN [i \in 1..Len(values) |->
             IF i >= period THEN Div(sum[i], Lit(period)) ELSE Null]

\* avgLoss === 0 ? 100 : 100 - 100 / (1 + avgGain / avgLoss)
rsiValue(avgGain, avgLoss) ==
  IF avgLoss = Fin(0) THEN Lit(100)
  ELSE Sub(Lit(100), Div(Lit(100), Add(Lit(1), Div(avgGain, avgLoss))))

\* the averages of util.rsi after the iteration of index i - 1 (i > period):
\* the seed over the first `period' deltas, then the smoothing
rsiAvg(prices, period) ==
  LET ch(i) == Sub(prices[i], prices[i - 1])
      seed[i \in 1..(period + 1)] ==
        IF i = 1 THEN [gain |-> Fin(0), loss |-> Fin(0)]
        ELSE [gain |-> Add(seed[i - 1].gain, MathMax0(ch(i))),
              loss |-> Add(seed[i - 1].loss, MathMax0(Neg(ch(i))))]
      avg[i \in (period + 1)..Len(prices)] ==
        IF i = period + 1
        THEN [gain |-> Div(seed[i].gain, Lit(period)), loss |-> Div(seed[i].loss, Lit(period))]
        ELSE [gain |-> Div(Add(Mul(avg[i - 1].gain, Lit(period - 1)), MathMax0(ch(i))),
                           Lit(period)),
              loss |-> Div(Add(Mul(avg[i - 1].loss, Lit(period - 1)), MathMax0(Neg(ch(i)))),
                           Lit(period))]
  IN avg

\* an oscillator whose first value comes one point later
rsi_LateStart(prices, period) ==
  IF Len(prices) < period + 1 THEN [i \in 1..Len(prices) |-> Null]
  ELSE [i \in 1..Len(prices) |->
          IF i > period + 1
          THEN rsiValue(rsiAvg(prices, period)[i].gain, rsiAvg(prices, period)[i].loss)
          ELSE Null]

\* util.rsi(prices, period)
rsi(prices, period) ==
  IF Len(prices) < period + 1 THEN [i \in 1..Len(prices) |-> Null]
  ELSE [i \in 1..Len(prices) |->
          IF i > period
          THEN rsiValue(rsiAvg(prices, period)[i].gain, rsiAvg(prices, period)[i].loss)
          ELSE Null]

(* ------------------------------ signal markers ------------------------ *)
\* a ?? b
Nullish(a, b) == IF a = Null THEN b ELSE a

\* rows.map(r => (r.orders_rsi ?? r.orders ?? null)), rows.map(r => (r.orders_xgb ?? null))
ord_rsi(rows) == [i \in 1..Len(rows) |-> Nullish(rows[i].orders_rsi, Nullish(rows[i].orders, Null))]
ord_xgb(rows) == [i \in 1..Len(rows) |-> Nullish(rows[i].orders_xgb, Null)]

\* ordersArr[i] > 0
IsBuy(o) == o.k = "fin" /\ o.v > 0

\* a sell test that takes zero for a sell
IsSell_OrZero(o) == o.k = "fin" /\ o.v <= 0

\* ordersArr[i] < 0
IsSell(o) == o.k = "fin" /\ o.v < 0

\* the elements arr[i] with sel[i], in order (the pushes of the loop)
RECURSIVE Pushed(_, _, _)
Pushed(arr, sel, n) ==
  IF n = 0 THEN << >>
  ELSE IF sel[n] THEN Append(Pushed(arr, sel, n - 1), arr[n]) ELSE Pushed(arr, sel, n - 1)

\* addSignalMarkers(ordersArr, namePrefix): the traces it pushes
addSignalMarkers(ordersArr, namePrefix, ts, close) ==
  IF ~\E i \in 1..Len(ordersArr) : ordersArr[i] # Null /\ ordersArr[i] # Fin(0) THEN << >>
  ELSE LET n    == Len(ordersArr)
           buy  == [i \in 1..n |-> IsBuy(ordersArr[i])]
           sell == [i \in 1..n |-> IsSell(ordersArr[i])]
           bx   == Pushed(ts, buy, n)
           by   == Pushed(close, buy, n)
           sx   == Pushed(ts, sell, n)
           sy   == Pushed(close, sell, n)
           up(name) == IF bx # << >>
                       THEN << [src |-> namePrefix, name |-> name, x |-> bx, y |-> by] >>
                       ELSE << >>
           dn(name) == IF sx # << >>
                       THEN << [src |-> namePrefix, name |-> name, x |-> sx, y |-> sy] >>
                       ELSE << >>
       IN up("glow1 up") \o dn("glow1 dn") \o up("glow2 up") \o dn("glow2 dn")
            \o up("Buy") \o dn("Sell")

\* if ($("#signals_rsi").is(":checked")) addSignalMarkers(ord_rsi, "RSI"); the same for XGB
signalTraces(rows, rsiOn, xgbOn, ts, close) ==
  (IF rsiOn THEN addSignalMarkers(ord_rsi(rows), "RSI", ts, close) ELSE << >>)
    \o (IF xgbOn THEN addSignalMarkers(ord_xgb(rows), "XGB", ts, close) ELSE << >>)

(* ------------------------------ price axis ---------------------------- *)
\* x * (num / den) for a decimal literal num / den: 0.95, 0.98, 1.02, 0.04
Scale(x, num, den) ==
  IF x.k = "fin" THEN RoundQ(x.v * num, den) ELSE x

\* Number.isFinite(v)
IsFinite(x) == x.k = "fin"

\* Math.min(...arr), Math.max(...arr) of an array of finite numbers
RECURSIVE MathMin(_)
MathMin(arr) ==
  IF arr = << >> THEN Inf(1)
  ELSE LET m == MathMin(Tail(arr))
       IN IF m.k = "inf" \/ Head(arr).v < m.v THEN Head(arr) ELSE m

RECURSIVE MathMax(_)
MathMax(arr) ==
  IF arr = << >> THEN Inf(0 - 1)
  ELSE LET m == MathMax(Tail(arr))
       IN IF m.k = "inf" \/ Head(arr).v > m.v THEN Head(arr) ELSE m

\* arr.filter(v => Number.isFinite(v)), arr.filter(v => Number.isFinite(v) && v > 0)
RECURSIVE Finites(_)
Finites(arr) ==
  IF arr = << >> THEN << >>
  ELSE (IF IsFinite(Head(arr)) THEN <<Head(arr)>> ELSE << >>) \o Finites(Tail(arr))

RECURSIVE Positives(_)
Positives(arr) ==
  IF arr = << >> THEN << >>
  ELSE (IF IsFinite(Head(arr)) /\ Head(arr).v > 0 THEN <<Head(arr)>> ELSE << >>)
         \o Positives(Tail(arr))

\* a || b
OrElse(a, b) == IF a = Fin(0) \/ a.k = "nan" THEN b ELSE a

\* a log scale that keeps the smallest low as it is
logFloor_None(pMin, open, high, low, close) == pMin

\* if (isLog) { ...; pMin = Math.max(pMin, minPos*0.95); }
logFloor(pMin, open, high, low, close) ==
  LET positives == Positives(open \o high \o low \o close)
      minPos    == IF positives # << >> THEN MathMin(positives) ELSE Fin(TinyPositive)
      floor     == Scale(minPos, 95, 100)
  IN IF floor.v > pMin.v THEN floor ELSE pMin

\* a pad whose only fallback is the fixed one
padOf_Fixed(pMin, pMax) ==
  OrElse(Scale(Sub(pMax, pMin), 4, 100), Lit(FallbackPad))

\* const pad = (pMax - pMin) * 0.04 || pMin*0.04 || 1
padOf(pMin, pMax) ==
  OrElse(Scale(Sub(pMax, pMin), 4, 100), OrElse(Scale(pMin, 4, 100), Lit(FallbackPad)))

\* pMin, pMax, pad and yPriceRange of a rebuild over the rows of a window
yPriceRange(rows, isLog) ==
  LET col(f)  == [i \in 1..Len(rows) |-> rows[i][f]]
      lows    == Finites(col("low"))
      highs   == Finites(col("high"))
      min0    == MathMin(lows)
      max0    == MathMax(highs)
      none    == ~IsFinite(min0) \/ ~IsFinite(max0)
      min1    == IF none THEN Fin(0) ELSE min0
      pMax    == IF none THEN Lit(1) ELSE max0
      pMin    == IF isLog
                 THEN logFloor(min1, col("open"), col("high"), col("low"), col("close"))
                 ELSE min1
      pad     == padOf(pMin, pMax)
  IN [pMin |-> pMin, pMax |-> pMax, pad |-> pad,
      lo |-> IF isLog THEN Scale(pMin, 98, 100) ELSE Sub(pMin, pad),
      hi |-> IF isLog THEN Scale(pMax, 102, 100) ELSE Add(pMax, pad)]

(* ------------------------- Plotly, as drawChart uses it ---------------- *)
\* Plotly.purge("chart"): gd.data is deleted
PlotlyPurge(g) == NoData

\* a cap that keeps the first n elements
KeepLast_Oldest(s, n) == IF Len(s) > n THEN SubSeq(s, 1, n) ELSE s

KeepLast(s, n) == IF Len(s) > n THEN SubSeq(s, Len(s) - n + 1, Len(s)) ELSE s

\* an extend that also recomputes the overlays over the longer window
PlotlyExtendTraces_Recompute(g, addX, addC, maxPoints) ==
  [g EXCEPT !.x = KeepLast(g.x \o addX, maxPoints),
            !.close = KeepLast(g.close \o addC, maxPoints),
            !.ov.hi = g.ov.hi + Len(addX)]

\* Plotly.extendTraces(gd, {x:[addX], ..., close:[addC]}, [0], maxPoints):
\* every array of trace 0 gets its own addition and keeps its last maxPoints
PlotlyExtendTraces(g, addX, addC, maxPoints) ==
  [g EXCEPT !.x = KeepLast(g.x \o addX, maxPoints),
            !.close = KeepLast(g.close \o addC, maxPoints)]

\* a restyle without the trace index [0]: the arrays replace those of every trace
PlotlyRestyle_AllTraces(g, xs, cs) == [g EXCEPT !.x = xs, !.close = cs, !.ov = NoOv]

\* Plotly.restyle(gd, {x:[xs], ..., close:[cs]}, [0]): replaces the arrays of trace 0
PlotlyRestyle(g, xs, cs) == [g EXCEPT !.x = xs, !.close = cs]

\* What the container shows after Plotly has drawn into it.  When renderEmpty
\* has overwritten the container while gd.data was kept, Plotly still holds
\* its old DOM nodes: the drawing may or may not become visible.
Shown(v, g) == IF v = "placeholder" /\ g.hasData THEN {"chart", "placeholder"} ELSE {"chart"}

\* traces.length of a rebuild: candles, SMA 20, SMA 50, volume | RSI + two levels
\* (the rows of this model carry no orders column: addSignalMarkers returns early)
TraceCount(c) ==
  1 + (IF "sma20" \in c.checked THEN 1 ELSE 0) + (IF "sma50" \in c.checked THEN 1 ELSE 0)
    + (IF c.lowerPanel = "volume" THEN 1 ELSE 3)

\* p of the RSI trace: Math.max(2, +rsiPeriod.val() || 14)
RsiPeriodOf(v) == Max(RsiPeriodMin, IF v = 0 THEN RsiPeriodDefault ELSE v)

\* the trace set of a full rebuild over the window lo..hi of source f
BuildTraces(f, lo, hi, c) ==
  [hasData |-> TRUE, ntraces |-> TraceCount(c),
   x |-> WinTs(f, lo, hi), close |-> WinClose(f, lo, hi),
   ov |-> [file |-> f, lo |-> lo, hi |-> hi, lowerPanel |-> c.lowerPanel,
           rsiPeriod |-> IF c.lowerPanel = "rsi" THEN RsiPeriodOf(c.rsiPeriod) ELSE 0,
           logScale |-> c.logScale, checked |-> c.checked]]

\* x of the volume trace {type:"bar", x:ts, y:vol}: the timestamps of the
\* rebuild that pushed it
volumeTraceX(g) == WinTs(g.ov.file, g.ov.lo, g.ov.hi)

(* ----------------------------- drawChart ------------------------------- *)
\* canExtend testing the first fetched timestamp instead of the last
canExtend_FirstTs(animate, g, curFile, fileNow, lts, tsArr) ==
  /\ ~animate
  /\ g.hasData /\ g.ntraces > 0
  /\ curFile = fileNow
  /\ lts # NoTs
  /\ Len(tsArr) > 0
  /\ tsArr[1] > lts

\* canExtend without the test of `animate'
canExtend_Animated(animate, g, curFile, fileNow, lts, tsArr) ==
  /\ g.hasData /\ g.ntraces > 0
  /\ curFile = fileNow
  /\ lts # NoTs
  /\ Len(tsArr) > 0
  /\ tsArr[Len(tsArr)] > lts

\* const canExtend = (!animate && gdInc && gdInc.data && gdInc.data.length > 0 &&
\*   (_currentFile === fileNow) && _lastTs && tsArr.length && tsArr[tsArr.length-1] > _lastTs)
canExtend(animate, g, curFile, fileNow, lts, tsArr) ==
  /\ ~animate
  /\ g.hasData /\ g.ntraces > 0
  /\ curFile = fileNow
  /\ lts # NoTs
  /\ Len(tsArr) > 0
  /\ tsArr[Len(tsArr)] > lts

\* the extend block entered whenever a chart of the same source is rendered,
\* without any test of the fetched timestamps
extendPath_NoTsTest(animate, g, curFile, fileNow, lts, tsArr) ==
  /\ ~animate
  /\ g.hasData /\ g.ntraces > 0
  /\ curFile = fileNow
  /\ lts # NoTs

\* if (canExtend){ let idx = tsArr.findIndex(t => t > _lastTs); if (idx > -1){ ... return; } }
extendPath(animate, g, curFile, fileNow, lts, tsArr) ==
  /\ canExtend(animate, g, curFile, fileNow, lts, tsArr)
  /\ FindIndex(tsArr, lts) > 0 - 1

\* the arrays the extend block hands to Plotly.extendTraces: idx is found in
\* the filtered tsArr and then used to slice both tsArr and the unfiltered
\* rows; each price column is filtered for null on its own
\*   const addX = tsArr.slice(idx);
\*   const addO = rows.slice(idx).map(r => r.open).filter(v => v != null); ...
extendArrays(rows, lts) ==
  LET col(f) == [i \in 1..Len(rows) |-> rows[i][f]]
      tsArr  == FilterNull(col("ts"))
      idx    == FindIndex(tsArr, lts)
  IN [x     |-> JsSliceFrom(tsArr, idx),
      open  |-> FilterNull(JsSliceFrom(col("open"), idx)),
      high  |-> FilterNull(JsSliceFrom(col("high"), idx)),
      low   |-> FilterNull(JsSliceFrom(col("low"), idx)),
      close |-> FilterNull(JsSliceFrom(col("close"), idx))]

\* an empty branch that renders the placeholder without Plotly.purge
emptyPath_NoPurge(g, lts, cf) ==
  [gd |-> g, lastTs |-> lts, currentFile |-> cf, view |-> "placeholder"]

\* an empty branch that also forgets the sync state
emptyPath_Reset(g, lts, cf) ==
  [gd |-> PlotlyPurge(g), lastTs |-> NoTs, currentFile |-> NoFile, view |-> "placeholder"]

\* the empty branch: Plotly.purge("chart"); renderEmpty(...); return
emptyPath(g, lts, cf) ==
  [gd |-> PlotlyPurge(g), lastTs |-> lts, currentFile |-> cf, view |-> "placeholder"]

\* a catch block that resets the sync state
catchPath_Reset(g, lts, cf, tm) ==
  [gd |-> g, lastTs |-> NoTs, currentFile |-> NoFile, view |-> "placeholder",
   chartTimer |-> tm, rethrow |-> FALSE]

\* a catch block that throws again after rendering the placeholder
catchPath_Rethrow(g, lts, cf, tm) ==
  [gd |-> g, lastTs |-> lts, currentFile |-> cf, view |-> "placeholder",
   chartTimer |-> tm, rethrow |-> TRUE]

\* the catch block: renderEmpty("chart", "Ошибка загрузки", ...), nothing else
catchPath(g, lts, cf, tm) ==
  [gd |-> g, lastTs |-> lts, currentFile |-> cf, view |-> "placeholder",
   chartTimer |-> tm, rethrow |-> FALSE]

\* a drawChart that aborts the fetches still pending
drawChart_AbortPrior(animate, trigger, file, tailv) ==
  /\ Len(inflight) < MaxInflight
  /\ draws < MaxDraws
  /\ draws' = draws + 1
  /\ inflight' = <<[animate |-> animate, trigger |-> trigger, file |-> file,
                    lo |-> WindowLo(srcLen[file], TailOf(tailv)), hi |-> srcLen[file]]>>

\* a reveal engaged by every rebuild
revealEngaged_Always(animate, N) == N > 1

\* if (animate) { const N = ts.length; if (N > 1) { ... } }
revealEngaged(animate, N) == animate /\ N > 1

\* the synchronous head of drawChart: loadCandles reads #csvFile and #tailRows
\* and suspends in fetch; the backend answers with the tail of the source
drawChart(animate, trigger, file, tailv) ==
  /\ Len(inflight) < MaxInflight
  /\ draws < MaxDraws
  /\ draws' = draws + 1
  /\ inflight' = Append(inflight,
       [animate |-> animate, trigger |-> trigger, file |-> file,
        lo |-> WindowLo(srcLen[file], TailOf(tailv)), hi |-> srcLen[file]])

RemoveAt(s, i) == [k \in 1..(Len(s) - 1) |-> IF k < i THEN s[k] ELSE s[k + 1]]

\* what the awaited fetch delivers: a rejection or a non-2xx answer, an empty
\* array, or the rows of the window
Responses == {"fail", "empty", "rows"}

\* The continuation of drawChart after `await loadCandles()': fetch failure,
\* empty result, extend, or full rebuild (with or without the reveal animation).
drawChartSettle(i, resp, renderOk) ==
  /\ i \in 1..Len(inflight)
  /\ LET req     == inflight[i]
         ok      == resp # "fail"
         ts      == IF resp = "rows" THEN WinTs(req.file, req.lo, req.hi) ELSE << >>
         close   == IF resp = "rows" THEN WinClose(req.file, req.lo, req.hi) ELSE << >>
         N       == Len(ts)
         fileNow == selFile
         tsArr   == FilterNull(ts)
         ext     == ok /\ N > 0 /\ extendPath(req.animate, gd, currentFile, fileNow, lastTs, tsArr)
         idx     == FindIndex(tsArr, lastTs)
         addX    == JsSliceFrom(tsArr, idx)
         addC    == FilterNull(JsSliceFrom(close, idx))
         tailMax == TailOf(tailRows)
         reveal  == revealEngaged(req.animate, N)
         lastK   == Min(RevealStart, N)
         built   == BuildTraces(req.file, req.lo, req.hi, cfg)
         kind    == CASE ~ok       -> "fetchError"
                      [] N = 0     -> "empty"
                      [] ext       -> "extend"
                      [] renderOk  -> "rebuild"
                      [] OTHER     -> "renderError"
         ep      == emptyPath(gd, lastTs, currentFile)
         cp      == catchPath(gd, lastTs, currentFile, chartTimer)
     IN
       /\ inflight' = RemoveAt(inflight, i)
       /\ CASE kind \in {"fetchError", "renderError"} ->
                 /\ gd' = cp.gd
                 /\ lastTs' = cp.lastTs
                 /\ currentFile' = cp.currentFile
                 /\ view' = cp.view
                 /\ chartTimer' = cp.chartTimer
                 /\ hostError' = (hostError \/ cp.rethrow)
                 /\ anims' = anims
            [] kind = "empty" ->
                 /\ gd' = ep.gd
                 /\ lastTs' = ep.lastTs
                 /\ currentFile' = ep.currentFile
                 /\ view' = ep.view
                 /\ UNCHANGED <<chartTimer, hostError, anims>>
            [] kind = "extend" ->
                 /\ gd' = PlotlyExtendTraces(gd, addX, addC, tailMax)
                 /\ lastTs' = tsArr[Len(tsArr)]
                 /\ view' \in Shown(view, gd)
                 /\ UNCHANGED <<currentFile, chartTimer, hostError, anims>>
            [] kind = "rebuild" ->
                 /\ reveal => Len(anims) < MaxAnims
                 /\ gd' = IF reveal
                          THEN PlotlyRestyle(built, JsPrefix(ts, lastK), JsPrefix(close, lastK))
                          ELSE built
                 /\ anims' = IF reveal
                             THEN Append(anims, [file |-> req.file, lo |-> req.lo, hi |-> req.hi,
                                                 lastK |-> lastK, t |-> 0])
                             ELSE anims
                 /\ currentFile' = fileNow
                 /\ lastTs' = ts[N]
                 /\ view' \in Shown(view, gd)
                 /\ UNCHANGED <<chartTimer, hostError>>
       /\ UNCHANGED <<calcVars, srcLen, grown, selFile, tailRows, cfg, debounce, timers,
                      autoRefresh, intervalInput, storedInterval, fab, docVisible,
                      paneActive, budget, draws>>
       /\ srcChanged' = (srcChanged /\ kind \notin {"rebuild", "extend"})
       /\ boot' = IF req.trigger = "init" THEN "timers" ELSE boot
       /\ last' = [kind |-> kind,
                   path |-> CASE kind = "fetchError" -> "catch"
                              [] kind = "empty" -> "empty"
                              [] kind = "extend" -> "extend"
                              [] OTHER -> "rebuild",
                   animate |-> req.animate, trigger |-> req.trigger,
                   file |-> req.file, fileNow |-> fileNow, lo |-> req.lo, hi |-> req.hi,
                   preLastTs |-> lastTs, preFile |-> currentFile,
                   preHasData |-> (gd.hasData /\ gd.ntraces > 0),
                   preCount |-> Len(gd.x), preSrcChanged |-> srcChanged, preView |-> view,
                   postLastTs |-> lastTs', postFile |-> currentFile',
                   postHasData |-> (gd'.hasData /\ gd'.ntraces > 0),
                   postCount |-> Len(gd'.x), postView |-> view',
                   addX |-> IF kind = "extend" THEN addX ELSE << >>,
                   addClose |-> IF kind = "extend" THEN addC ELSE << >>,
                   tailMax |-> tailMax,
                   timerKept |-> (chartTimer' = chartTimer /\ timers' = timers),
                   prevKind |-> last.kind]

(* ------------------------ reveal animation (step) ---------------------- *)
\* k of a frame at time t/AnimTicks of the duration, easeIn = p^3:
\* Math.max(lastK, Math.min(N, Math.floor(1 + e * (N - 1))))
\* a step index that is not held at the index already shown
StepK_Unheld(N, lastK, t) ==
  Min(N, 1 + ((t * t * t * (N - 1)) \div (AnimTicks * AnimTicks * AnimTicks)))

StepK(N, lastK, t) ==
  Max(lastK, Min(N, 1 + ((t * t * t * (N - 1)) \div (AnimTicks * AnimTicks * AnimTicks))))

\* a step whose index is rounded one short and that ends without the final
\* render of the complete series
AnimStep_NoFinalRender(j, t) ==
  /\ j \in 1..Len(anims)
  /\ LET a      == anims[j]
         N      == a.hi - a.lo + 1
         ts     == WinTs(a.file, a.lo, a.hi)
         close  == WinClose(a.file, a.lo, a.hi)
         k      == Max(a.lastK, Min(N, StepK(N, a.lastK, t) - 1))
         done   == t >= AnimTicks
         styled == IF k # a.lastK
                   THEN PlotlyRestyle(gd, JsPrefix(ts, k), JsPrefix(close, k))
                   ELSE gd
     IN
       /\ t \in (a.t + 1)..AnimTicks
       /\ IF k # a.lastK /\ ~gd.hasData
          THEN /\ anims' = RemoveAt(anims, j)
               /\ UNCHANGED <<gd, view>>
          ELSE /\ gd' = styled
               /\ anims' = IF done THEN RemoveAt(anims, j)
                           ELSE [anims EXCEPT ![j].lastK = k, ![j].t = t]
               /\ IF k # a.lastK THEN view' \in Shown(view, gd) ELSE view' = view
  /\ UNCHANGED <<calcVars, draws, dataVars, ctlVars, syncVars, schedVars, inflight, boot, hostError,
                 budget, srcChanged, last>>

\* One animation frame of the closure `step' of an animated rebuild.  A frame
\* that calls Plotly.restyle on a purged graph div throws and requests no
\* further frame.
AnimStep(j, t) ==
  /\ j \in 1..Len(anims)
  /\ LET a      == anims[j]
         N      == a.hi - a.lo + 1
         ts     == WinTs(a.file, a.lo, a.hi)
         close  == WinClose(a.file, a.lo, a.hi)
         k      == StepK(N, a.lastK, t)
         done   == t >= AnimTicks
         styled == IF k # a.lastK
                   THEN PlotlyRestyle(gd, JsPrefix(ts, k), JsPrefix(close, k))
                   ELSE gd
     IN
       /\ t \in (a.t + 1)..AnimTicks
       /\ IF (k # a.lastK \/ done) /\ ~gd.hasData
          THEN /\ anims' = RemoveAt(anims, j)
               /\ UNCHANGED <<gd, view>>
          ELSE /\ gd' = IF done THEN PlotlyRestyle(styled, ts, close) ELSE styled
               /\ anims' = IF done THEN RemoveAt(anims, j)
                           ELSE [anims EXCEPT ![j].lastK = k, ![j].t = t]
               /\ IF k # a.lastK \/ done THEN view' \in Shown(view, gd) ELSE view' = view
  /\ UNCHANGED <<calcVars, draws, dataVars, ctlVars, syncVars, schedVars, inflight, boot, hostError,
                 budget, srcChanged, last>>

\* requestAnimationFrame(step): the browser keeps delivering the frames it
\* was asked for
FramesDelivered == WF_vars(\E j \in 1..MaxAnims, t \in 1..AnimTicks : AnimStep(j, t))

(* ------------------------------ scheduler ------------------------------ *)
\* startFabCountdown: nextRefreshAt = now + interval; a frame of updateFabRing is requested
startFabCountdown == [raf |-> TRUE, ahead |-> TRUE]

\* updateFabRing run from its animation frame: with auto-refresh off, or with
\* less than 100 ms left, it requests no further frame
updateFabRing(f, auto) == [f EXCEPT !.raf = auto /\ f.ahead]

\* a timer part that creates the new timer without clearing the previous one
setTimer_NoClear(auto, stored) ==
  /\ chartTimer' = IF auto THEN getChartInterval(intervalInput, stored) ELSE 0
  /\ timers' = timers + (IF auto THEN 1 ELSE 0)

\* the timer part of startChartTimer: clear the previous timer; when
\* auto-refresh is on, create a new one with the interval of getChartInterval
setTimer(auto, stored) ==
  /\ chartTimer' = IF auto THEN getChartInterval(intervalInput, stored) ELSE 0
  /\ timers' = (IF chartTimer # 0 THEN timers - 1 ELSE timers) + (IF auto THEN 1 ELSE 0)

\* startChartTimer: with auto-refresh off the pending frame is cancelled and
\* the ring reset; otherwise the countdown is started with the timer
startChartTimer(auto) ==
  /\ setTimer(auto, storedInterval)
  /\ fab' = IF auto THEN startFabCountdown ELSE [fab EXCEPT !.raf = FALSE]

\* a callback that refreshes whatever the visibility and the active pane
TickRefreshes_Always(f) == TRUE

\* a callback that refreshes only once the countdown has run down
TickRefreshes_Due(f) == docVisible /\ paneActive /\ ~f.ahead

\* the test of the setInterval callback, in a countdown state f: the callback
\* reads neither nextRefreshAt nor fabRAF
TickRefreshes(f) == docVisible /\ paneActive

\* the setInterval callback: drawChart(false) and startFabCountdown() while the
\* document is visible and the chart pane active, nothing otherwise
Tick ==
  /\ timers > 0
  /\ IF TickRefreshes(fab)
     THEN /\ drawChart(FALSE, "poll", selFile, tailRows)
          /\ fab' = startFabCountdown
          /\ UNCHANGED <<calcVars, dataVars, ctlVars, syncVars, plotVars, chartTimer, timers,
                         autoRefresh, intervalInput, storedInterval, docVisible,
                         paneActive, boot, hostError, budget, srcChanged, last>>
     ELSE UNCHANGED vars

\* an animation frame of updateFabRing
FabFrame ==
  /\ fab.raf
  /\ fab' = updateFabRing(fab, autoRefresh)
  /\ UNCHANGED <<calcVars, draws, dataVars, ctlVars, syncVars, plotVars, chartTimer, timers,
                 autoRefresh, intervalInput, storedInterval, docVisible, paneActive,
                 inflight, boot, hostError, budget, srcChanged, last>>

\* time passes: nextRefreshAt is less than 100 ms away
FabElapse ==
  /\ fab.ahead
  /\ fab' = [fab EXCEPT !.ahead = FALSE]
  /\ UNCHANGED <<calcVars, draws, dataVars, ctlVars, syncVars, plotVars, chartTimer, timers,
                 autoRefresh, intervalInput, storedInterval, docVisible, paneActive,
                 inflight, boot, hostError, budget, srcChanged, last>>

(* ------------------------------ entry point ---------------------------- *)
\* await App.chart.drawChart(true)
InitialDraw ==
  /\ boot = "start"
  /\ boot' = "drawing"
  /\ drawChart(TRUE, "init", selFile, tailRows)
  /\ UNCHANGED <<calcVars, dataVars, ctlVars, syncVars, plotVars, schedVars, hostError,
                 budget, srcChanged, last>>

\* App.chart.startChartTimer(); App.chart.startFabCountdown() after the first
\* draw has settled
StartTimers ==
  /\ boot = "timers"
  /\ boot' = "ready"
  /\ setTimer(autoRefresh, storedInterval)
  /\ fab' = startFabCountdown
  /\ UNCHANGED <<calcVars, draws, dataVars, ctlVars, syncVars, plotVars, autoRefresh, intervalInput,
                 storedInterval, docVisible, paneActive, inflight, hostError, budget,
                 srcChanged, last>>

\* beforeunload: App.chart.cleanup(), then the page and its pending callbacks go
cleanup ==
  /\ boot = "ready"
  /\ boot' = "closed"
  /\ chartTimer' = 0
  /\ timers' = IF chartTimer # 0 THEN timers - 1 ELSE timers
  /\ fab' = [fab EXCEPT !.raf = FALSE]
  /\ lastTs' = NoTs /\ currentFile' = NoFile
  /\ gd' = IF gd.hasData THEN PlotlyPurge(gd) ELSE gd
  /\ view' = IF gd.hasData THEN "blank" ELSE view
  /\ inflight' = << >> /\ anims' = << >> /\ debounce' = {} /\ budget' = 0
  /\ UNCHANGED <<calcVars, draws, dataVars, selFile, tailRows, cfg, autoRefresh, intervalInput,
                 storedInterval, docVisible, paneActive, hostError, srcChanged, last>>

(* ------------------------------- controls ------------------------------ *)
UserEvent == budget > 0 /\ budget' = budget - 1

\* _currentFile = null; _lastTs = null;
ResetSync == lastTs' = NoTs /\ currentFile' = NoFile

\* window.App.chart._currentFile = null; window.App.chart._lastTs = null;
\* the exported object has getters only and the scripts are not strict:
\* the assignments are ignored
AssignExported(cur, v) == cur

\* #reloadChart click
ReloadClick ==
  /\ UserEvent
  /\ drawChart(FALSE, "user", selFile, tailRows)
  /\ fab' = startFabCountdown
  /\ UNCHANGED <<calcVars, dataVars, ctlVars, syncVars, plotVars, chartTimer, timers, autoRefresh,
                 intervalInput, storedInterval, docVisible, paneActive, boot, hostError,
                 srcChanged, last>>

\* the #csvFile handler without the reset of _currentFile and _lastTs
CsvFileChange_NoReset(f) ==
  /\ UserEvent
  /\ f # selFile
  /\ selFile' = f
  /\ UNCHANGED syncVars
  /\ srcChanged' = TRUE
  /\ drawChart(TRUE, "source", f, tailRows)
  /\ UNCHANGED <<calcVars, dataVars, tailRows, cfg, debounce, plotVars, schedVars, boot,
                 hostError, last>>

\* #csvFile change
CsvFileChange(f) ==
  /\ UserEvent
  /\ f # selFile
  /\ selFile' = f
  /\ ResetSync
  /\ srcChanged' = TRUE
  /\ drawChart(TRUE, "source", f, tailRows)
  /\ UNCHANGED <<calcVars, dataVars, tailRows, cfg, debounce, plotVars, schedVars, boot,
                 hostError, last>>

\* #tailRows change: the handler is debounced by 300 ms
TailRowsChange(v) ==
  /\ UserEvent
  /\ v # tailRows
  /\ tailRows' = v
  /\ debounce' = debounce \cup {"tailRows"}
  /\ UNCHANGED <<calcVars, draws, dataVars, selFile, cfg, syncVars, plotVars, schedVars, inflight, boot,
                 hostError, srcChanged, last>>

TailRowsDebounced ==
  /\ "tailRows" \in debounce
  /\ debounce' = debounce \ {"tailRows"}
  /\ ResetSync
  /\ drawChart(TRUE, "config", selFile, tailRows)
  /\ UNCHANGED <<calcVars, dataVars, selFile, tailRows, cfg, plotVars, schedVars, boot,
                 hostError, budget, srcChanged, last>>

\* #tailSegments .btn click
TailSegmentClick(v) ==
  /\ UserEvent
  /\ tailRows' = v
  /\ ResetSync
  /\ drawChart(TRUE, "config", selFile, v)
  /\ UNCHANGED <<calcVars, dataVars, selFile, cfg, debounce, plotVars, schedVars, boot,
                 hostError, srcChanged, last>>

\* #lowerPanel change
LowerPanelChange(p) ==
  /\ UserEvent
  /\ p # cfg.lowerPanel
  /\ cfg' = [cfg EXCEPT !.lowerPanel = p]
  /\ ResetSync
  /\ drawChart(FALSE, "config", selFile, tailRows)
  /\ UNCHANGED <<calcVars, dataVars, selFile, tailRows, debounce, plotVars, schedVars, boot,
                 hostError, srcChanged, last>>

\* #rsiPeriod change: the handler is debounced by 300 ms
RsiPeriodChange(v) ==
  /\ UserEvent
  /\ v # cfg.rsiPeriod
  /\ cfg' = [cfg EXCEPT !.rsiPeriod = v]
  /\ debounce' = debounce \cup {"rsiPeriod"}
  /\ UNCHANGED <<calcVars, draws, dataVars, selFile, tailRows, syncVars, plotVars, schedVars, inflight,
                 boot, hostError, srcChanged, last>>

RsiPeriodDebounced ==
  /\ "rsiPeriod" \in debounce
  /\ debounce' = debounce \ {"rsiPeriod"}
  /\ ResetSync
  /\ drawChart(FALSE, "config", selFile, tailRows)
  /\ UNCHANGED <<calcVars, dataVars, selFile, tailRows, cfg, plotVars, schedVars, boot,
                 hostError, budget, srcChanged, last>>

\* #logScaleSwitch change
LogScaleSwitch ==
  /\ UserEvent
  /\ cfg' = [cfg EXCEPT !.logScale = ~cfg.logScale]
  /\ ResetSync
  /\ drawChart(FALSE, "config", selFile, tailRows)
  /\ UNCHANGED <<calcVars, dataVars, selFile, tailRows, debounce, plotVars, schedVars, boot,
                 hostError, srcChanged, last>>

\* click on a chip bound by U.bindChip (SMA 20, SMA 50, RSI signals, XGB signals)
ChipClick(c) ==
  /\ UserEvent
  /\ cfg' = [cfg EXCEPT !.checked = IF c \in cfg.checked THEN cfg.checked \ {c}
                                    ELSE cfg.checked \cup {c}]
  /\ currentFile' = AssignExported(currentFile, NoFile)
  /\ lastTs' = AssignExported(lastTs, NoTs)
  /\ drawChart(FALSE, "config", selFile, tailRows)
  /\ UNCHANGED <<calcVars, dataVars, selFile, tailRows, debounce, plotVars, schedVars, boot,
                 hostError, srcChanged, last>>

\* an #autoRefreshChart handler that also forgets the sync state
AutoRefreshChange_ResetSync ==
  /\ UserEvent
  /\ autoRefresh' = ~autoRefresh
  /\ startChartTimer(~autoRefresh)
  /\ lastTs' = NoTs /\ currentFile' = NoFile
  /\ UNCHANGED <<calcVars, draws, dataVars, ctlVars, plotVars, intervalInput,
                 storedInterval, docVisible, paneActive, inflight, boot, hostError,
                 srcChanged, last>>

\* #autoRefreshChart change: saveAuto(); startChartTimer(); updateFabRing()
\* (the direct call of updateFabRing leaves the countdown as startChartTimer set it)
AutoRefreshChange ==
  /\ UserEvent
  /\ autoRefresh' = ~autoRefresh
  /\ startChartTimer(~autoRefresh)
  /\ UNCHANGED <<calcVars, draws, dataVars, ctlVars, syncVars, plotVars, intervalInput,
                 storedInterval, docVisible, paneActive, inflight, boot, hostError,
                 srcChanged, last>>

\* the user types into #chartInterval: the debounce timer is armed
IntervalChange(v) ==
  /\ UserEvent
  /\ intervalInput' = v
  /\ debounce' = debounce \cup {"chartInterval"}
  /\ UNCHANGED <<calcVars, draws, dataVars, selFile, tailRows, cfg, syncVars, plotVars, chartTimer,
                 timers, autoRefresh, storedInterval, fab, docVisible, paneActive,
                 inflight, boot, hostError, srcChanged, last>>

\* the debounced body: saveIv(); startChartTimer(); updateFabCountdown() is
\* not defined anywhere and throws, so updateFabRing() is not reached
IntervalDebounced ==
  /\ "chartInterval" \in debounce
  /\ debounce' = debounce \ {"chartInterval"}
  /\ storedInterval' = getChartInterval(intervalInput, storedInterval)
  /\ setTimer(autoRefresh, storedInterval')
  /\ fab' = IF autoRefresh THEN startFabCountdown ELSE [fab EXCEPT !.raf = FALSE]
  /\ UNCHANGED <<calcVars, draws, dataVars, selFile, tailRows, cfg, syncVars, plotVars, autoRefresh,
                 intervalInput, docVisible, paneActive, inflight, boot, hostError,
                 budget, srcChanged, last>>

\* visibilitychange: on "hidden" the handler tests App.chart.chartTimer, which the
\* module does not export, and stops nothing; on "visible" it calls startChartTimer
VisibilityChange ==
  /\ UserEvent
  /\ docVisible' = ~docVisible
  /\ IF ~docVisible THEN startChartTimer(autoRefresh) ELSE UNCHANGED <<chartTimer, timers, fab>>
  /\ UNCHANGED <<calcVars, draws, dataVars, ctlVars, syncVars, plotVars, autoRefresh, intervalInput,
                 storedInterval, paneActive, inflight, boot, hostError, srcChanged, last>>

\* another tab of the dashboard is shown: #chart-pane loses the class "active"
ChartTabHidden ==
  /\ UserEvent
  /\ paneActive
  /\ paneActive' = FALSE
  /\ UNCHANGED <<calcVars, draws, dataVars, ctlVars, syncVars, plotVars, chartTimer, timers, autoRefresh,
                 intervalInput, storedInterval, fab, docVisible, inflight, boot, hostError,
                 srcChanged, last>>

\* shown.bs.tab of #chart-tab: startChartTimer(); drawChart(false)
ChartTabShown ==
  /\ UserEvent
  /\ ~paneActive
  /\ paneActive' = TRUE
  /\ startChartTimer(autoRefresh)
  /\ drawChart(FALSE, "user", selFile, tailRows)
  /\ UNCHANGED <<calcVars, dataVars, ctlVars, syncVars, plotVars, autoRefresh, intervalInput,
                 storedInterval, docVisible, boot, hostError, srcChanged, last>>

(* ------------------------------- backend ------------------------------- *)
\* the trading system appends a candle to a source
Grow(f) ==
  /\ f \in Growing
  /\ grown[f] < MaxGrow
  /\ grown' = [grown EXCEPT ![f] = @ + 1]
  /\ srcLen' = [srcLen EXCEPT ![f] = @ + 1]
  /\ UNCHANGED <<calcVars, draws, ctlVars, syncVars, plotVars, schedVars, inflight, boot, hostError,
                 budget, srcChanged, last>>

\* the chart engine with its controls
Next ==
  \/ InitialDraw
  \/ StartTimers
  \/ \E i \in 1..MaxInflight, resp \in Responses, renderOk \in BOOLEAN :
       drawChartSettle(i, resp, renderOk)
  \/ \E j \in 1..MaxAnims, t \in 1..AnimTicks : AnimStep(j, t)
  \/ Tick
  \/ ReloadClick
  \/ \E f \in Files : CsvFileChange(f)
  \/ \E v \in TailInputs : TailRowsChange(v)
  \/ TailRowsDebounced
  \/ \E v \in TailInputs : TailSegmentClick(v)
  \/ \E p \in LowerPanels : LowerPanelChange(p)
  \/ \E v \in RsiPeriodInputs : RsiPeriodChange(v)
  \/ RsiPeriodDebounced
  \/ LogScaleSwitch
  \/ \E c \in Chips : ChipClick(c)
  \/ \E f \in Files : Grow(f)

Spec == Init /\ [][Next]_vars

\* the chart engine with the refresh timer, its controls and the countdown
NextSched ==
  \/ InitialDraw
  \/ StartTimers
  \/ \E i \in 1..MaxInflight, resp \in Responses, renderOk \in BOOLEAN :
       drawChartSettle(i, resp, renderOk)
  \/ \E j \in 1..MaxAnims, t \in 1..AnimTicks : AnimStep(j, t)
  \/ Tick
  \/ ReloadClick
  \/ \E f \in Files : Grow(f)
  \/ AutoRefreshChange
  \/ VisibilityChange
  \/ ChartTabHidden
  \/ ChartTabShown
  \/ FabFrame
  \/ FabElapse
  \/ cleanup

InitSched == Load(MaxSchedEvents)
SpecSched == InitSched /\ [][NextSched]_vars

\* the chart engine with the draws that start and disturb a reveal, and the
\* animation frames delivered
NextReveal ==
  \/ InitialDraw
  \/ \E i \in 1..MaxInflight, resp \in Responses, renderOk \in BOOLEAN :
       drawChartSettle(i, resp, renderOk)
  \/ \E j \in 1..MaxAnims, t \in 1..AnimTicks : AnimStep(j, t)
  \/ ReloadClick
  \/ \E v \in TailInputs : TailSegmentClick(v)
  \/ \E f \in Files : Grow(f)

SpecReveal == Init /\ [][NextReveal]_vars /\ FramesDelivered

\* the series and periods handed to the indicators: small and large prices,
\* none of them rounded
PriceValues == {Lit(1), Lit(2), Lit(128), Lit(384), Lit(3584)}
PriceSeries == UNION {[1..n -> PriceValues] : n \in 0..MaxLen}
Periods     == 1..MaxPeriod

pageVars == <<dataVars, ctlVars, syncVars, plotVars, schedVars, inflight, boot, hostError,
              budget, draws, srcChanged, last, mm>>

\* U.sma(close, period)
CallSma ==
  /\ calc.fn = "none"
  /\ calc' = [calc EXCEPT !.fn = "sma", !.out = sma(calc.values, calc.period)]
  /\ UNCHANGED pageVars

\* U.rsi(close, period)
CallRsi ==
  /\ calc.fn = "none"
  /\ calc' = [calc EXCEPT !.fn = "rsi", !.out = rsi(calc.values, calc.period)]
  /\ UNCHANGED pageVars

\* the indicators applied to a series
NextCalc == CallSma \/ CallRsi

InitCalc ==
  /\ LoadPage(MaxUserEvents)
  /\ calc \in {[fn |-> "none", values |-> s, period |-> p, out |-> << >>] :
                 s \in PriceSeries, p \in Periods}

SpecCalc == InitCalc /\ [][NextCalc]_vars

\* the signal columns of a row: absent or null, zero, a buy, a sell
OrderValues == {Null, Fin(0), Lit(2), Lit(0 - 1)}
OrderRows   == [orders_rsi : OrderValues, orders : OrderValues, orders_xgb : OrderValues]
OrderWindows == UNION {[1..n -> OrderRows] : n \in 0..MaxRows}

\* the source whose rows carry the signals
SignalFile == "b.csv"

\* the signal markers of a rebuild
CallSignals ==
  /\ calc.fn = "none"
  /\ LET n == Len(calc.values.rows)
     IN calc' = [calc EXCEPT !.fn = "signals",
                   !.out = signalTraces(calc.values.rows, calc.values.rsiOn, calc.values.xgbOn,
                                        WinTs(SignalFile, 1, n), WinClose(SignalFile, 1, n))]
  /\ UNCHANGED pageVars

NextSignals == CallSignals

InitSignals ==
  /\ LoadPage(MaxUserEvents)
  /\ calc \in {[fn |-> "none", values |-> [rows |-> w, rsiOn |-> a, xgbOn |-> b],
                 period |-> 0, out |-> << >>] :
                 w \in OrderWindows, a \in BOOLEAN, b \in BOOLEAN}

SpecSignals == InitSignals /\ [][NextSignals]_vars

\* the prices of a row: null, negative, zero, the smallest positive number, 2
\* and 100 (open and close are one column: both only enter the log floor)
CandleValues  == {Null, Lit(0 - 1), Fin(0), Fin(1), Lit(2), Lit(100)}
CandleRows    == [low : CandleValues, high : CandleValues, open : CandleValues]
CandleWindows == UNION {[1..n -> CandleRows] : n \in 0..MaxRows}

\* the price axis range of a rebuild
CallRange ==
  /\ calc.fn = "none"
  /\ calc' = [calc EXCEPT !.fn = "range",
                !.out = yPriceRange([i \in 1..Len(calc.values.rows) |->
                                       [low |-> calc.values.rows[i].low,
                                        high |-> calc.values.rows[i].high,
                                        open |-> calc.values.rows[i].open,
                                        close |-> calc.values.rows[i].open]],
                                    calc.values.isLog)]
  /\ UNCHANGED pageVars

NextRange == CallRange

InitRange ==
  /\ LoadPage(MaxUserEvents)
  /\ calc \in {[fn |-> "none", values |-> [rows |-> w, isLog |-> l],
                 period |-> 0, out |-> << >>] :
                 w \in CandleWindows, l \in BOOLEAN}

SpecRange == InitRange /\ [][NextRange]_vars

\* fetched rows with holes: row i has the timestamp 10 * i or null, and each
\* price field its own value 100 * i + 1..4 or null (null is 0)
HoleyRow(i) ==
  {[ts |-> t, open |-> o, high |-> h, low |-> l, close |-> c] :
     t \in {0, 10 * i}, o \in {0, 100 * i + 1}, h \in {0, 100 * i + 2},
     l \in {0, 100 * i + 3}, c \in {0, 100 * i + 4}}
HoleyWindows ==
  UNION {{w \in [1..n -> UNION {HoleyRow(i) : i \in 1..n}] : \A i \in 1..n : w[i] \in HoleyRow(i)} :
           n \in 0..MaxRows}

\* _lastTs before the draw: below every fetched timestamp, or between two
LastTsInputs == {5, 15}

\* the extend block of a draw whose fetched timestamps allow it
CallExtend ==
  /\ calc.fn = "none"
  /\ LET tsArr == FilterNull([i \in 1..Len(calc.values.rows) |-> calc.values.rows[i].ts])
     IN /\ Len(tsArr) > 0
        /\ tsArr[Len(tsArr)] > calc.values.lastTs
        /\ FindIndex(tsArr, calc.values.lastTs) > 0 - 1
  /\ calc' = [calc EXCEPT !.fn = "extend",
                !.out = extendArrays(calc.values.rows, calc.values.lastTs)]
  /\ UNCHANGED pageVars

NextExtend == CallExtend

InitExtend ==
  /\ LoadPage(MaxUserEvents)
  /\ calc \in {[fn |-> "none", values |-> [rows |-> w, lastTs |-> l],
                 period |-> 0, out |-> << >>] :
                 w \in HoleyWindows, l \in LastTsInputs}

SpecExtend == InitExtend /\ [][NextExtend]_vars

\* values typed into #chartInterval: empty, 0, 3, 5, 7.9, 10, 60, -4, 86400,
\* 2^31 - 1, 2^31, 3 * 10^9, 2^32 + 7
IntervalInputs ==
  { NoInput,
    Num(FALSE, 0, 0, FALSE), Num(FALSE, 0, 3, FALSE), Num(FALSE, 0, 5, FALSE),
    Num(FALSE, 0, 7, TRUE), Num(FALSE, 0, 10, FALSE), Num(FALSE, 0, 60, FALSE),
    Num(TRUE, 0, 4, FALSE), Num(FALSE, 1, 20864, FALSE),
    Num(FALSE, 32767, 65535, FALSE), Num(FALSE, 32768, 0, FALSE),
    Num(FALSE, 45776, 24064, FALSE), Num(FALSE, 65536, 7, FALSE) }

\* the interval setting alone: the first draw, the timer, edits of #chartInterval
NextInterval ==
  \/ InitialDraw
  \/ StartTimers
  \/ \E i \in 1..MaxInflight, resp \in Responses, renderOk \in BOOLEAN :
       drawChartSettle(i, resp, renderOk)
  \/ \E v \in IntervalInputs : IntervalChange(v)
  \/ IntervalDebounced

InitInterval == Load(MaxIntervalEdits)
SpecInterval == InitInterval /\ [][NextInterval]_vars

\* the refresh timer with everything that starts or restarts it: the entry
\* point, the auto-refresh switch, the interval field, tab activation and
\* page visibility
NextTimers ==
  \/ InitialDraw
  \/ StartTimers
  \/ \E i \in 1..MaxInflight, resp \in Responses, renderOk \in BOOLEAN :
       drawChartSettle(i, resp, renderOk)
  \/ Tick
  \/ AutoRefreshChange
  \/ \E v \in IntervalInputs : IntervalChange(v)
  \/ IntervalDebounced
  \/ VisibilityChange
  \/ ChartTabHidden
  \/ ChartTabShown
  \/ cleanup

InitTimers == Load(MaxSchedEvents)
SpecTimers == InitTimers /\ [][NextTimers]_vars

(* ---------------------------- ModuleManager --------------------------- *)
\* x put behind the elements of the sorted s that do not come after it
InsertByPriority(s, x) ==
  LET k == Cardinality({i \in 1..Len(s) : s[i].priority >= x.priority})
  IN SubSeq(s, 1, k) \o <<x>> \o SubSeq(s, k + 1, Len(s))

\* initQueue.sort((a, b) => b.priority - a.priority): descending and stable
RECURSIVE sortByPriority(_)
sortByPriority(s) ==
  IF s = << >> THEN << >>
  ELSE InsertByPriority(sortByPriority(SubSeq(s, 1, Len(s) - 1)), s[Len(s)])

\* addToInitQueue(initFunction, priority): push, then sort
addToInitQueue(q, initFunction, priority) ==
  sortByPriority(Append(q, [fn |-> initFunction, priority |-> priority]))

\* executeInit up to its first await: return when isInitialized is set; with
\* an empty queue the loop ends at once and sets it; otherwise item.fn() of
\* the first item is invoked and the call is suspended in `await'
executeInit(m, caller) ==
  IF m.isInitialized THEN m
  ELSE IF m.initQueue = << >> THEN [m EXCEPT !.isInitialized = TRUE]
  ELSE [m EXCEPT !.runs = Append(@, [caller |-> caller, pos |-> 1]),
                 !.log = Append(@, [id |-> m.initQueue[1].fn.id, caller |-> caller])]

\* the priorities and outcomes of the functions the entry point queues
Priorities   == {20, 90}
AddSequences == UNION {[1..n -> [priority : Priorities, throws : BOOLEAN]] : n \in 1..MaxQueue}

\* the queue after addToInitQueue has been called for adds[1], ..., adds[k]
RECURSIVE QueueAfter(_, _)
QueueAfter(adds, k) ==
  IF k = 0 THEN << >>
  ELSE addToInitQueue(QueueAfter(adds, k - 1),
                      [id |-> k, throws |-> adds[k].throws], adds[k].priority)

chartAndCalcVars == <<calc, dataVars, ctlVars, syncVars, plotVars, schedVars, inflight, boot,
                      hostError, budget, draws, srcChanged, last>>

\* initializeDashboard: the addToInitQueue calls, then
\* await ModuleManager.executeInit(), all in one task
initializeDashboard ==
  /\ ~mm.entry
  /\ \E adds \in AddSequences :
       mm' = executeInit([mm EXCEPT !.initQueue = QueueAfter(adds, Len(adds)),
                                    !.entry = TRUE], "entry")
  /\ UNCHANGED chartAndCalcVars

\* ModuleLoader.checkAllModulesLoaded finding every registered module loaded:
\* ModuleManager.executeInit()
checkAllModulesLoaded ==
  /\ mm.loaderCalls < MaxLoaderCalls
  /\ mm' = executeInit([mm EXCEPT !.loaderCalls = @ + 1], "loader")
  /\ UNCHANGED chartAndCalcVars

\* an executeInit call resumed after `await item.fn()' (the function returned
\* or threw, which the inner catch logs): the next item is invoked, or the
\* loop is over and isInitialized is set
executeInitResume(r) ==
  /\ r \in 1..Len(mm.runs)
  /\ LET run == mm.runs[r]
     IN mm' = IF run.pos < Len(mm.initQueue)
              THEN [mm EXCEPT !.runs[r].pos = run.pos + 1,
                              !.log = Append(@, [id |-> mm.initQueue[run.pos + 1].fn.id,
                                                 caller |-> run.caller])]
              ELSE [mm EXCEPT !.runs = RemoveAt(mm.runs, r), !.isInitialized = TRUE]
  /\ UNCHANGED chartAndCalcVars

\* the initialization of the dashboard
NextModules ==
  \/ initializeDashboard
  \/ checkAllModulesLoaded
  \/ \E r \in 1..(MaxLoaderCalls + 1) : executeInitResume(r)

InitModules == Load(MaxUserEvents)
SpecModules == InitModules /\ [][NextModules]_vars

(* ============================== properties ============================= *)
Successes == {"rebuild", "extend"}
Failures  == {"fetchError", "empty", "renderError"}
NonEmpty  == {"rebuild", "extend", "renderError"}   \* the fetch delivered rows

\* the rows of the window the last settled draw fetched
LastRows == [k \in 1..(last.hi - last.lo + 1) |->
               [ts |-> RowTs(last.file, last.lo + k - 1),
                close |-> RowClose(last.file, last.lo + k - 1)]]
LastMaxTs == RowTs(last.file, last.hi)
IsNewer(r) == r.ts > last.preLastTs
NewerRows == SelectSeq(LastRows, IsNewer)

\* the draw fetched the source that is selected and recorded in the sync state
SameSource == last.file = last.fileNow /\ last.fileNow = last.preFile

C2_AllFour ==
  /\ ~last.animate
  /\ last.preHasData
  /\ last.fileNow = last.preFile
  /\ last.preLastTs # NoTs /\ LastMaxTs > last.preLastTs

C2_ExtendOnlyIfAllFour ==
  /\ last.path = "extend" => C2_AllFour
  /\ (last.kind \in NonEmpty /\ ~C2_AllFour) => last.path = "rebuild"

\* an animated draw that finds a rendered chart of the same source and newer
\* rows, and rebuilds
C2_Witness ==
  /\ last.path = "rebuild" /\ last.animate
  /\ last.preHasData /\ last.fileNow = last.preFile
  /\ last.preLastTs # NoTs /\ LastMaxTs > last.preLastTs

\* C3: after a change of the selected source the sync state is INITIAL until
\* a draw succeeds, and the first successful draw after the change takes the
\* full rebuild path, whatever timestamps it fetched.
C3_SourceChangeForcesRebuild ==
  /\ srcChanged => (lastTs = NoTs /\ currentFile = NoFile)
  /\ (last.kind \in Successes /\ last.preSrcChanged) => last.path = "rebuild"

\* a poll of the old source settles after the change, not animated, and rebuilds
C3_Witness ==
  /\ last.kind = "rebuild" /\ last.preSrcChanged
  /\ ~last.animate /\ last.preHasData

\* C4: on the extend path the appended rows are exactly the fetched rows whose
\* timestamp exceeds the prior lastSeenTs, and lastSeenTs becomes the maximum
\* fetched timestamp.
C4_ExtendAppendsNewerRows ==
  last.kind = "extend" =>
    /\ last.addX = [k \in 1..Len(NewerRows) |-> NewerRows[k].ts]
    /\ last.addClose = [k \in 1..Len(NewerRows) |-> NewerRows[k].close]
    /\ last.postLastTs = LastMaxTs

\* an extend whose window also holds rows that are not newer
C4_Witness ==
  /\ last.kind = "extend"
  /\ Len(last.addX) = 2
  /\ Len(NewerRows) < Len(LastRows)

\* a non-animated draw on the unchanged source of a rendered chart whose
\* window holds no row newer than lastSeenTs
C5_NothingNew ==
  /\ last.kind \in NonEmpty
  /\ ~last.animate
  /\ SameSource
  /\ last.preHasData
  /\ last.preLastTs # NoTs /\ LastMaxTs <= last.preLastTs

\* C5 as claimed: such a draw neither extends nor rebuilds the trace set.
C5_NoOpWhenNothingNew == C5_NothingNew => last.path \notin {"extend", "rebuild"}

\* C5 amended: such a draw takes the full rebuild path (never the extend path,
\* and there is no no-op outcome).
C5_RebuildWhenNothingNew == C5_NothingNew => last.path = "rebuild"

C5_Witness == C5_NothingNew /\ last.kind = "rebuild" /\ last.trigger = "poll"

\* C6: the draw triggered by a change of the render configuration (lower
\* panel, oscillator period, scale, a toggle chip, tail size) finds the sync
\* state reset and is a full rebuild, never an extend.
C6_ConfigChangeForcesRebuild ==
  (last.trigger = "config" /\ last.kind \in Successes) => last.path = "rebuild"

\* C7 as claimed: an empty result renders the placeholder and leaves lastSeenTs,
\* sourceIdentity and hasRenderedTrace as they were.
C7_EmptyKeepsSyncState ==
  last.kind = "empty" =>
    /\ last.postView = "placeholder"
    /\ last.postLastTs = last.preLastTs
    /\ last.postFile = last.preFile
    /\ last.postHasData = last.preHasData

\* C7 amended: an empty result renders the placeholder, leaves lastSeenTs and
\* sourceIdentity as they were, and discards the rendered traces.
C7_EmptyKeepsTsAndSource ==
  last.kind = "empty" =>
    /\ last.postView = "placeholder"
    /\ last.postLastTs = last.preLastTs
    /\ last.postFile = last.preFile
    /\ ~last.postHasData

C7_Witness ==
  /\ last.kind = "empty"
  /\ last.preHasData /\ last.preLastTs # NoTs /\ last.preFile # NoFile

\* C8: a failed fetch leaves lastSeenTs, sourceIdentity and the rendered
\* traces as they were, and the next draw, if it is a successful non-animated
\* one on the same source with a newer maximum timestamp, takes the extend path.
C8_FetchFailureKeepsSyncState ==
  /\ last.kind = "fetchError" =>
       /\ last.postLastTs = last.preLastTs
       /\ last.postFile = last.preFile
       /\ last.postHasData = last.preHasData
  /\ ( /\ last.prevKind = "fetchError" /\ last.kind \in Successes
       /\ ~last.animate /\ SameSource /\ last.preHasData
       /\ last.preLastTs # NoTs /\ LastMaxTs > last.preLastTs )
     => last.kind = "extend"

C8_Witness ==
  /\ last.prevKind = "fetchError" /\ last.kind = "extend"
  /\ last.trigger = "poll"

C10_DrawFailureNotFatal ==
  /\ ~hostError
  /\ last.kind \in Failures => last.timerKept

C10_Witness ==
  /\ last.kind \in {"fetchError", "renderError"} /\ last.trigger = "poll"
  /\ chartTimer # 0 /\ timers > 0

\* a request of the refresh timer is issued in this step
PollIssued ==
  /\ Len(inflight') = Len(inflight) + 1
  /\ inflight'[Len(inflight')].trigger = "poll"

\* C11: the refresh timer issues a fetch only while the document is visible
\* and the chart pane active, and the draw it starts is never animated; a tick
\* in any other state issues nothing.
C11_TickRefreshGated ==
  [][PollIssued => (docVisible /\ paneActive /\ ~inflight'[Len(inflight')].animate)]_vars

\* a refresh of the timer is in flight, after a user interaction
C11_Witness ==
  /\ \E i \in 1..Len(inflight) : inflight[i].trigger = "poll" /\ ~inflight[i].animate
  /\ budget < MaxSchedEvents
  /\ docVisible /\ paneActive /\ timers > 0

\* the configured value: the field, else the stored value, else the default
ConfiguredInterval ==
  IF intervalInput.set THEN intervalInput
  ELSE IF storedInterval # NoStored THEN OfSeconds(storedInterval)
  ELSE OfSeconds(IntervalDefault)

\* r is max(5, integer part of v), over the integers
IsMaxOfMinAndIntPart(r, v) ==
  IF v.neg \/ (v.hi = 0 /\ v.lo <= IntervalMin)
  THEN r = IntervalMin
  ELSE v.hi < Half \div 2 /\ r = v.hi * Half + v.lo

\* C12: the interval of the live timer is max(5, integer part of the
\* configured value), 10 when nothing is configured, and so never below 5.
C12_IntervalIsMaxOfMinAndInput ==
  (chartTimer # 0 /\ "chartInterval" \notin debounce) =>
    /\ chartTimer >= IntervalMin
    /\ IsMaxOfMinAndIntPart(chartTimer, ConfiguredInterval)

FabStates == [raf : BOOLEAN, ahead : BOOLEAN]

C14_ManualExtends ==
  ( /\ ~autoRefresh /\ last.trigger = "user"
    /\ last.kind \in Successes /\ ~last.animate /\ SameSource /\ last.preHasData
    /\ last.preLastTs # NoTs /\ LastMaxTs > last.preLastTs )
  => last.kind = "extend"

\* C14: switching auto-refresh off stops the timer and the countdown and
\* leaves lastSeenTs, sourceIdentity and the rendered traces as they were; a
\* later manual refresh on the same source with newer rows extends.
C14_DisableKeepsSync ==
  /\ [][(autoRefresh /\ ~autoRefresh') =>
          /\ timers' = 0 /\ chartTimer' = 0 /\ ~fab'.raf
          /\ UNCHANGED <<lastTs, currentFile, gd>>]_vars
  /\ []C14_ManualExtends

C14_Witness ==
  /\ ~autoRefresh /\ timers = 0 /\ chartTimer = 0
  /\ last.trigger = "user" /\ last.kind = "extend"

\* C15: after cleanup, and after the document became hidden, no refresh timer
\* is live.
C15_TimerStoppedWhenHidden ==
  [][((docVisible /\ ~docVisible') \/ (boot # "closed" /\ boot' = "closed")) =>
       (timers' = 0 /\ chartTimer' = 0)]_vars

\* a draw settles in this step
Settles == Len(inflight') < Len(inflight) /\ boot' # "closed"

\* the draw that settles in this step delivered rows of the selected source
\* from an older window than the draw settled before it: it was issued
\* earlier and its response arrives later
C16_StaleSettlesLast ==
  /\ Settles
  /\ last'.kind \in Successes /\ last.kind \in Successes
  /\ last'.file = last.file /\ last'.file = last'.fileNow
  /\ last'.hi < last.hi

C17_RevealOnlyOnAnimatedRebuild ==
  [][Len(anims') > Len(anims) =>
       (Settles /\ last'.kind = "rebuild" /\ last'.animate)]_vars

\* a reveal started by a control, not by the first draw
C17_Witness ==
  /\ anims # << >>
  /\ last.kind = "rebuild" /\ last.animate /\ last.trigger # "init"
  /\ Len(gd.x) = RevealStart

\* a frame of a reveal animation runs in this step
RevealFrame == anims' # anims /\ inflight' = inflight /\ boot' # "closed"

\* C19: a frame of the reveal animation leaves the overlay traces and the
\* number of traces as they are; when it changes the candle trace, the new
\* points are a prefix of the points of the animated draw.
C19_RevealTouchesOnlyCandlePrefix ==
  [][RevealFrame =>
       /\ gd'.ov = gd.ov /\ gd'.ntraces = gd.ntraces /\ gd'.hasData = gd.hasData
       /\ gd' # gd =>
            \E j \in 1..Len(anims) : \E k \in 1..(anims[j].hi - anims[j].lo + 1) :
              /\ gd'.x = JsPrefix(WinTs(anims[j].file, anims[j].lo, anims[j].hi), k)
              /\ gd'.close = JsPrefix(WinClose(anims[j].file, anims[j].lo, anims[j].hi), k)]_vars

\* a frame has run on a chart with overlays and the reveal is half way
C19_Witness ==
  /\ anims # << >> /\ anims[1].t > 0
  /\ gd.hasData /\ gd.ntraces > 1
  /\ Len(gd.x) > RevealStart /\ Len(gd.x) < anims[1].hi - anims[1].lo + 1

RevealEnds(j) == RevealFrame /\ anims' = RemoveAt(anims, j)

\* the candle trace shows the complete series of the draw of animation j
RevealShowsAll(j) ==
  /\ gd'.x = WinTs(anims[j].file, anims[j].lo, anims[j].hi)
  /\ gd'.close = WinClose(anims[j].file, anims[j].lo, anims[j].hi)

\* C18, as claimed: every started reveal animation eventually ends (frames
\* being delivered), and it ends only by completing, the candle trace then
\* showing the complete series of N points of its draw.
C18_EveryRevealCompletes ==
  /\ (anims # << >>) ~> (anims = << >>)
  /\ [][\A j \in 1..Len(anims) : RevealEnds(j) => RevealShowsAll(j)]_vars

\* C18, amended: every started reveal animation eventually ends (frames being
\* delivered); it ends by completing, the candle trace then showing the
\* complete series of N points of its draw whatever the frame timing was,
\* unless the chart has been purged meanwhile (by a draw with an empty result,
\* or by cleanup): then it stops at its next render and leaves the purged
\* chart as it is.
C18_RevealCompletesUnlessPurged ==
  /\ (anims # << >>) ~> (anims = << >>)
  /\ [][\A j \in 1..Len(anims) : RevealEnds(j) =>
          \/ RevealShowsAll(j)
          \/ ~gd.hasData /\ gd' = gd]_vars

\* a reveal has completed after a frame in between: the complete series of the
\* animated draw is shown
C18_Witness ==
  /\ anims = << >> /\ inflight = << >>
  /\ last.kind = "rebuild" /\ last.animate
  /\ gd.hasData /\ gd.x = WinTs(last.file, last.lo, last.hi)
  /\ Len(gd.x) > RevealStart

\* C21: an extend leaves at most tailMax candle points, tailMax being at least
\* 50; the points it retains are the end of the old points followed by the
\* appended ones, every evicted point is older than every retained one, and
\* points are evicted only when the cap is exceeded.
C21_ExtendCapsAtTail ==
  [][(Settles /\ last'.kind = "extend") =>
       LET all == gd.x \o last'.addX
           d   == Len(all) - Len(gd'.x)
       IN /\ last'.tailMax >= TailMin
          /\ Len(gd'.x) <= last'.tailMax /\ Len(gd'.close) = Len(gd'.x)
          /\ d >= 0 /\ (d > 0 => Len(gd'.x) = last'.tailMax)
          /\ \A k \in 1..Len(gd'.x) : gd'.x[k] = all[k + d]
          /\ \A i \in 1..d : \A k \in 1..Len(gd'.x) : all[i] < gd'.x[k]]_vars

\* an extend has overflowed the cap: the chart is full and its oldest point
\* is gone
C21_Witness ==
  /\ last.kind = "extend" /\ SameSource
  /\ last.preCount + Len(last.addX) > last.tailMax
  /\ Len(gd.x) = last.tailMax
  /\ gd.x[Len(gd.x)] = LastMaxTs
  /\ gd.x[1] > RowTs(last.file, 1)

\* the exact sum of the values a..b of a series, in units of 1 / Grid
RECURSIVE SumOf(_, _, _)
SumOf(values, a, b) == IF a > b THEN 0 ELSE values[a].v + SumOf(values, a + 1, b)

\* the mean of the period values ending at i, recomputed from scratch
SmaDirect(values, period, i) ==
  LET s[j \in 0..period] ==
        IF j = 0 THEN Fin(0) ELSE Add(s[j - 1], values[i - period + j])
  IN Div(s[period], Lit(period))

\* every sum of consecutive values is a number: no addition or subtraction of
\* the running sum or of the recomputation rounds
ExactSums(values) ==
  \A a \in 1..Len(values) : \A b \in a..Len(values) :
    RoundQ(SumOf(values, a, b), 1) = Fin(SumOf(values, a, b))

\* C22, as claimed: sma(values, period) is undefined below index period - 1,
\* from there on it equals the mean of the period most recent values
\* recomputed directly, and for period 1 it is the input series.
C22_SmaEqualsDirectMean ==
  calc.fn = "sma" =>
    /\ Len(calc.out) = Len(calc.values)
    /\ \A i \in 1..Len(calc.out) :
         /\ i < calc.period => calc.out[i] = Null
         /\ i >= calc.period => calc.out[i] = SmaDirect(calc.values, calc.period, i)
    /\ calc.period = 1 => calc.out = calc.values

\* C22, amended: sma(values, period) is undefined below index period - 1 and
\* for period 1 it is the input series; from index period - 1 on it equals the
\* mean of the period most recent values recomputed directly (the exact mean,
\* rounded once) whenever every sum of consecutive values is computed without
\* rounding.
C22_SmaEqualsDirectMeanIfExact ==
  calc.fn = "sma" =>
    /\ Len(calc.out) = Len(calc.values)
    /\ \A i \in 1..Len(calc.out) :
         /\ i < calc.period => calc.out[i] = Null
         /\ (i >= calc.period /\ ExactSums(calc.values)) =>
              /\ calc.out[i] = SmaDirect(calc.values, calc.period, i)
              /\ calc.out[i] = RoundQ(SumOf(calc.values, i - calc.period + 1, i), calc.period)
    /\ calc.period = 1 => calc.out = calc.values

\* a mean over a window that has moved: the first value has left the running sum
C22_Witness ==
  /\ calc.fn = "sma" /\ calc.period = 3 /\ Len(calc.values) = 5
  /\ ExactSums(calc.values)
  /\ calc.values[1] # calc.values[4] /\ calc.values[2] # calc.values[5]
  /\ calc.out[2] = Null /\ calc.out[5].k = "fin"

\* C23, as claimed: rsi(prices, period) is undefined at every index up to and
\* including period (indices from 0), and all-undefined, of the same length,
\* on at most period points.
C23_RsiUndefinedThroughPeriod ==
  calc.fn = "rsi" =>
    /\ Len(calc.out) = Len(calc.values)
    /\ \A i \in 1..Len(calc.out) : i - 1 <= calc.period => calc.out[i] = Null

\* C23, amended: rsi(prices, period) is undefined at every index below period
\* (indices from 0) and defined from index period on; on at most period points
\* it is all-undefined, of the same length.
C23_RsiUndefinedBelowPeriod ==
  calc.fn = "rsi" =>
    /\ Len(calc.out) = Len(calc.values)
    /\ \A i \in 1..Len(calc.out) : i - 1 < calc.period <=> calc.out[i] = Null
    /\ Len(calc.values) <= calc.period => \A i \in 1..Len(calc.out) : calc.out[i] = Null

\* the oscillator on one point more than its period: one value, at index period
C23_Witness ==
  /\ calc.fn = "rsi" /\ calc.period = 3 /\ Len(calc.values) = 4
  /\ calc.out[3] = Null /\ calc.out[4] # Null

\* C24: every defined output of rsi on a non-empty series of finite prices is
\* a number between 0 and 100, and it is 100 exactly when the smoothed average
\* loss is 0.
C24_RsiWithin0And100 ==
  (calc.fn = "rsi" /\ Len(calc.values) > 0) =>
    \A i \in 1..Len(calc.out) :
      calc.out[i] # Null =>
        /\ calc.out[i].k = "fin"
        /\ calc.out[i].v >= 0 /\ calc.out[i].v <= 100 * Grid
        /\ calc.out[i] = Lit(100) <=> rsiAvg(calc.values, calc.period)[i].loss = Fin(0)

\* the values of one signal source, as the markers are built from them
SignalsOf(src) == IF src = "RSI" THEN ord_rsi(calc.values.rows) ELSE ord_xgb(calc.values.rows)
SignalOn(src)  == IF src = "RSI" THEN calc.values.rsiOn ELSE calc.values.xgbOn

\* the number of points at (x, y) in the traces `name' of source src
MarkersAt(src, name, x, y) ==
  Cardinality({<<t, k>> \in (1..Len(calc.out)) \X (1..MaxRows + 1) :
                 /\ calc.out[t].src = src /\ calc.out[t].name = name
                 /\ k <= Len(calc.out[t].x) /\ Len(calc.out[t].y) = Len(calc.out[t].x)
                 /\ calc.out[t].x[k] = x /\ calc.out[t].y[k] = y})

\* the number of points of the traces `name' of source src
MarkersIn(src, name) ==
  Cardinality({<<t, k>> \in (1..Len(calc.out)) \X (1..MaxRows + 1) :
                 /\ calc.out[t].src = src /\ calc.out[t].name = name
                 /\ k <= Len(calc.out[t].x)})

\* C25: for each enabled signal source and each row i, a positive value gives
\* exactly one buy marker at (timestamp i, close i) and no sell marker, a
\* negative value exactly one sell marker there and no buy marker, null or
\* zero gives neither; the markers are no more than these, and a disabled
\* source has none.  (A marker is a point of the trace named Buy or Sell; the
\* two halo traces under it repeat its points.)
C25_MarkersFollowSign ==
  calc.fn = "signals" =>
    \A src \in {"RSI", "XGB"} :
      LET n   == Len(calc.values.rows)
          o   == SignalsOf(src)
          buys(i)  == MarkersAt(src, "Buy", RowTs(SignalFile, i), RowClose(SignalFile, i))
          sells(i) == MarkersAt(src, "Sell", RowTs(SignalFile, i), RowClose(SignalFile, i))
      IN IF SignalOn(src)
         THEN /\ \A i \in 1..n :
                   /\ (o[i].k = "fin" /\ o[i].v > 0) => (buys(i) = 1 /\ sells(i) = 0)
                   /\ (o[i].k = "fin" /\ o[i].v < 0) => (sells(i) = 1 /\ buys(i) = 0)
                   /\ (o[i] = Null \/ o[i] = Fin(0)) => (buys(i) = 0 /\ sells(i) = 0)
              /\ MarkersIn(src, "Buy") = Cardinality({i \in 1..n : o[i].k = "fin" /\ o[i].v > 0})
              /\ MarkersIn(src, "Sell") = Cardinality({i \in 1..n : o[i].k = "fin" /\ o[i].v < 0})
         ELSE MarkersIn(src, "Buy") = 0 /\ MarkersIn(src, "Sell") = 0

\* a window with a buy of one source and a sell and a zero of the other, the
\* buy taken from the column `orders'
C25_Witness ==
  /\ calc.fn = "signals" /\ calc.values.rsiOn /\ calc.values.xgbOn
  /\ Len(calc.values.rows) = 2
  /\ calc.values.rows[1].orders_rsi = Null /\ calc.values.rows[1].orders = Lit(2)
  /\ calc.values.rows[1].orders_xgb = Fin(0) /\ calc.values.rows[2].orders_xgb = Lit(0 - 1)
  /\ MarkersIn("RSI", "Buy") >= 1 /\ MarkersIn("XGB", "Sell") = 1

\* the finite lows and highs of the window handed to yPriceRange
FiniteLows  == {calc.values.rows[i].low.v : i \in {j \in 1..Len(calc.values.rows) :
                                                     calc.values.rows[j].low.k = "fin"}}
FiniteHighs == {calc.values.rows[i].high.v : i \in {j \in 1..Len(calc.values.rows) :
                                                      calc.values.rows[j].high.k = "fin"}}
MinLow  == CHOOSE m \in FiniteLows : \A x \in FiniteLows : m <= x
MaxHigh == CHOOSE m \in FiniteHighs : \A x \in FiniteHighs : m >= x

\* C26: under log scale the lower bound of the price axis range is a number
\* above zero for every window, with zero or negative prices or with no
\* positive price at all.
C26_LogFloorPositive ==
  (calc.fn = "range" /\ calc.values.isLog) =>
    (calc.out.lo.k = "fin" /\ calc.out.lo.v > 0)

\* a log-scale range over a window whose lows are zero or negative
C26_Witness ==
  /\ calc.fn = "range" /\ calc.values.isLog
  /\ Len(calc.values.rows) = 2
  /\ FiniteLows # {} /\ FiniteHighs # {} /\ MinLow < 0 /\ MaxHigh > 0
  /\ calc.out.lo.v > 0

\* C27, as claimed: under linear scale the range is [min low - pad, max high +
\* pad] with pad 4% of the span max high - min low, and the fixed pad when the
\* span is zero.
C27_LinearPadFixedFallback ==
  (calc.fn = "range" /\ ~calc.values.isLog /\ FiniteLows # {} /\ FiniteHighs # {}) =>
    LET span == Sub(Fin(MaxHigh), Fin(MinLow))
        pad  == IF span = Fin(0) THEN Lit(FallbackPad) ELSE Scale(span, 4, 100)
    IN /\ calc.out.lo = Sub(Fin(MinLow), pad)
       /\ calc.out.hi = Add(Fin(MaxHigh), pad)

\* C27, amended: under linear scale the range is [min low - pad, max high +
\* pad] with pad 4% of the span max high - min low; when that is zero (the
\* span is zero), pad is 4% of min low, and the fixed pad 1 only when that is
\* zero too.
C27_LinearPadFallsBackToPrice ==
  (calc.fn = "range" /\ ~calc.values.isLog /\ FiniteLows # {} /\ FiniteHighs # {}) =>
    LET bySpan  == Scale(Sub(Fin(MaxHigh), Fin(MinLow)), 4, 100)
        byPrice == Scale(Fin(MinLow), 4, 100)
        pad     == IF bySpan # Fin(0) THEN bySpan
                   ELSE IF byPrice # Fin(0) THEN byPrice
                   ELSE Lit(FallbackPad)
    IN /\ calc.out.lo = Sub(Fin(MinLow), pad)
       /\ calc.out.hi = Add(Fin(MaxHigh), pad)

\* a flat window at the price 100: the pad is 4, not the fixed one
C27_Witness ==
  /\ calc.fn = "range" /\ ~calc.values.isLog
  /\ FiniteLows = {100 * Grid} /\ FiniteHighs = {100 * Grid}
  /\ calc.out.lo = Lit(96) /\ calc.out.hi = Lit(104)

\* floor(1 + ease(t / AnimTicks) * (N - 1)) with the cubic ease: the integer r
\* with r <= 1 + t^3 (N - 1) / AnimTicks^3 < r + 1
EasedCount(N, t) ==
  CHOOSE r \in 1..N :
    LET T3 == AnimTicks * AnimTicks * AnimTicks
    IN r * T3 <= T3 + t * t * t * (N - 1) /\ T3 + t * t * t * (N - 1) < (r + 1) * T3

\* C28: a reveal animation of N > 1 points starts with min(2, N) visible
\* points; every later frame that goes on shows k points with
\* k = floor(1 + ease(progress) (N - 1)) held within [points shown so far, N],
\* so the count never decreases and stays within [min(2, N), N]; what a frame
\* renders is the prefix of k points of the animated draw.
C28_RevealCountMonotone ==
  [][ /\ Len(anims') > Len(anims) =>
           LET a == anims'[Len(anims')]
               N == a.hi - a.lo + 1
           IN /\ N > 1 /\ a.lastK = Min(RevealStart, N)
              /\ Len(gd'.x) = a.lastK
      /\ (RevealFrame /\ Len(anims') = Len(anims)) =>
           \A j \in 1..Len(anims) :
             LET N == anims[j].hi - anims[j].lo + 1
                 k == anims'[j].lastK
             IN /\ k >= anims[j].lastK /\ k >= Min(RevealStart, N) /\ k <= N
                /\ anims'[j] # anims[j] =>
                     /\ k = Max(anims[j].lastK, Min(N, EasedCount(N, anims'[j].t)))
                     /\ k # anims[j].lastK =>
                          gd'.x = JsPrefix(WinTs(anims[j].file, anims[j].lo, anims[j].hi), k)
    ]_vars

\* a reveal half way: more than the first two points and fewer than all
C28_Witness ==
  /\ anims # << >> /\ anims[1].t > 0
  /\ anims[1].lastK > RevealStart /\ anims[1].lastK < anims[1].hi - anims[1].lo + 1
  /\ gd.x = JsPrefix(WinTs(anims[1].file, anims[1].lo, anims[1].hi), anims[1].lastK)

\* C29: in volume mode, after an extend the volume trace covers the same
\* timestamps as the candle trace.
C29_ExtendAppendsVolume ==
  (last.kind = "extend" /\ gd.hasData /\ gd.ov.lowerPanel = "volume" /\ anims = << >>) =>
    volumeTraceX(gd) = gd.x

\* C30: whatever startChartTimer calls, auto-refresh toggles, interval
\* changes, tab activations and visibility changes have happened, at most one
\* interval timer is live, it is the one chartTimer holds, and none is live
\* while auto-refresh is off.
C30_AtMostOneTimer ==
  /\ timers <= 1
  /\ timers = 1 <=> chartTimer # 0
  /\ ~autoRefresh => timers = 0

\* the timer has been restarted by an interval edit and by another control
\* after the entry point had started it
C30_Witness ==
  /\ boot = "ready" /\ budget = 0
  /\ storedInterval # NoStored
  /\ autoRefresh /\ timers = 1 /\ chartTimer = storedInterval

\* C31: the sourceIdentity a completed draw records is the source whose rows
\* it fetched, also when the selected source changed while the fetch was in
\* flight.
C31_RecordedSourceIsFetched ==
  last.kind = "rebuild" => last.postFile = last.file

\* the sources that have a row with the timestamp t
SourcesOfTs(t) == {f \in Files : \E i \in 1..srcLen[f] : RowTs(f, i) = t}

\* the sources the points of the rendered candle trace come from
TraceSources == UNION {SourcesOfTs(gd.x[k]) : k \in 1..Len(gd.x)}

\* C32: in every reachable state the rendered candle trace holds rows of a
\* single source; the extend path never appends rows fetched from one source
\* onto a trace rendered from another.
C32_TraceOfOneSource == Cardinality(TraceSources) <= 1

\* a reveal is running and the most recently settled draw, a later one than
\* the draw that started the reveal, has rendered (a rebuild without
\* animation, or an extend)
LaterDrawRendered ==
  /\ anims # << >>
  /\ last.kind \in Successes
  /\ ~(last.kind = "rebuild" /\ last.animate)

\* C33: once a later full rebuild or extend has been rendered, no step and no
\* final render of an earlier reveal animation replaces the points of the
\* candle trace.
C33_RevealNeverOverwritesLaterDraw ==
  [][(LaterDrawRendered /\ \E j \in 1..MaxAnims, t \in 1..AnimTicks : AnimStep(j, t))
       => (gd'.x = gd.x /\ gd'.close = gd.close)]_vars

\* no fetch is in flight and no reveal is running
Quiescent == inflight = << >> /\ anims = << >>

\* the largest timestamp of the rendered candle trace
MaxRenderedTs == CHOOSE m \in {gd.x[k] : k \in 1..Len(gd.x)} : \A k \in 1..Len(gd.x) : gd.x[k] <= m

\* C34: in every quiescent state in which a chart is rendered, the maximum
\* timestamp of the rendered candle trace equals lastSeenTs.
C34_QuiescentTraceEndsAtLastTs ==
  (Quiescent /\ view = "chart" /\ gd.hasData /\ gd.x # << >>) => MaxRenderedTs = lastTs

\* the container shows the placeholder while gd.data still holds the traces
\* of an earlier render
PlaceholderOverTrace == view = "placeholder" /\ gd.hasData

C36_RangeOrdered ==
  calc.fn = "range" =>
    /\ calc.out.lo.k = "fin" /\ calc.out.hi.k = "fin"
    /\ calc.out.lo.v < calc.out.hi.v

\* the fetched row with the timestamp t (timestamps are unique)
RowOfTs(t) ==
  calc.values.rows[CHOOSE i \in 1..Len(calc.values.rows) : calc.values.rows[i].ts = t]

\* C37: on the extend path the appended x, open, high, low and close arrays
\* have the same length, and each appended point carries the open, high, low
\* and close of the fetched row its timestamp belongs to, also when fetched
\* rows have a null timestamp or a null price field.
C37_AppendedArraysAligned ==
  calc.fn = "extend" =>
    LET a == calc.out
    IN /\ Len(a.open) = Len(a.x) /\ Len(a.high) = Len(a.x)
       /\ Len(a.low) = Len(a.x) /\ Len(a.close) = Len(a.x)
       /\ \A k \in 1..Len(a.x) :
            /\ a.open[k] = RowOfTs(a.x[k]).open /\ a.high[k] = RowOfTs(a.x[k]).high
            /\ a.low[k] = RowOfTs(a.x[k]).low /\ a.close[k] = RowOfTs(a.x[k]).close

\* how often the function with the identity id has been invoked
InvocationsOf(id) == Cardinality({i \in 1..Len(mm.log) : mm.log[i].id = id})

\* the priority the function with the identity id was queued with
PriorityOf(id) ==
  mm.initQueue[CHOOSE i \in 1..Len(mm.initQueue) : mm.initQueue[i].fn.id = id].priority

\* C38: whatever executeInit calls of the entry point and of
\* ModuleLoader.checkAllModulesLoaded interleave, each queued initialization
\* function runs at most once, the functions run in descending priority
\* order, and once the initialization is over every queued function has been
\* run, those after a failing one too.
C38_EachInitOnceInOrder ==
  /\ \A i \in 1..Len(mm.initQueue) : InvocationsOf(mm.initQueue[i].fn.id) <= 1
  /\ \A i, j \in 1..Len(mm.log) :
       i < j => PriorityOf(mm.log[i].id) >= PriorityOf(mm.log[j].id)
  /\ (mm.isInitialized /\ mm.log # << >>) =>
       \A i \in 1..Len(mm.initQueue) : InvocationsOf(mm.initQueue[i].fn.id) >= 1
====
